---- MODULE Spec2Model ----
(***************************************************************************)
(* dagit: a graph of tracked git branches (dag.rs), the relationship       *)
(* detection run by `track` (git.rs, main.rs) and the topologically        *)
(* ordered rebase sweep run by `update` (main.rs).                         *)
(*                                                                         *)
(* Two specifications are given.  Spec is the command-line program: the    *)
(* commands `track` and `update` acting on the persisted graph.  SpecStore *)
(* is the graph store alone, driven through its public methods.            *)
(***************************************************************************)
EXTENDS Integers, Sequences, FiniteSets, TLC

Range(s) == {s[i] : i \in DOMAIN s}

\* ------------------------------------------------------------------ bounds
\* Ids are handed out up to this value (next_branch_id grows without bound).
MaxId == 3
\* Edges the graph store specification adds to one graph.
MaxEdges == 3
\* Commits of the repository history seen by relationship detection.
NumCommits == 2
MaxBlank == 2
MaxPr == 2

\* The git branch names the user tracks, in the order in which the user first
\* tracks them (names only matter through equality, so one order stands for all).
NameOrder == <<"a", "b", "c">>
Names == Range(NameOrder)
Ids == 1..MaxId
Commits == 1..NumCommits

\* ------------------------------------------------------------- small helpers
\* Option<T>: None is the empty sequence, Some(x) the one-element sequence.
None == <<>>
Some(x) == <<x>>
\* Every order in which a HashMap may iterate over the keys S.
Orders(S) == {s \in [1..Cardinality(S) -> S] : \A i, j \in DOMAIN s : s[i] = s[j] => i = j}

\* Vec::contains followed by Vec::push: the guarded push of both add-edge methods.
PushAlways(v, x) == Append(v, x)
PushIfAbsent(v, x) == IF x \in Range(v) THEN v ELSE Append(v, x)
\* Vec::retain(|&e| e != x)
RetainNot(v, x) == SelectSeq(v, LAMBDA e : e # x)

\* ------------------------------------------------------------------ dag.rs
\* Branch::with_id
with_id(uid, git_name) ==
    [uid |-> uid, parents |-> <<>>, children |-> <<>>, git_name |-> git_name,
     last_failed_rebase |-> None, pr_number |-> None]

\* Dag::new
NewDag == [branches |-> [i \in {} |-> with_id(i, "")], next_branch_id |-> 1]

\* HashMap::insert / HashMap::remove on the branches map
MapInsert(m, k, v) == [i \in DOMAIN m \cup {k} |-> IF i = k THEN v ELSE m[i]]
MapRemove(m, k) == [i \in DOMAIN m \ {k} |-> m[i]]

\* Dag::contains_branch
contains_branch(d, uid) == uid \in DOMAIN d.branches

\* Dag::create_branch; the id it returns is d.next_branch_id
create_branch(d, git_name) ==
    [branches |-> MapInsert(d.branches, d.next_branch_id, with_id(d.next_branch_id, git_name)),
     next_branch_id |-> d.next_branch_id + 1]

\* insert_branch without the update of the counter.
InsertKeepCounter(d, branch) ==
    [d EXCEPT !.branches = MapInsert(d.branches, branch.uid, branch)]

\* Dag::insert_branch
insert_branch(d, branch) ==
    [branches |-> MapInsert(d.branches, branch.uid, branch),
     next_branch_id |-> IF d.next_branch_id >= branch.uid + 1
                        THEN d.next_branch_id ELSE branch.uid + 1]

\* Dag::remove_branch
RemoveNothing(d, uid) == d
remove_branch(d, uid) == [d EXCEPT !.branches = MapRemove(d.branches, uid)]

\* Dag::find_branch_by_name: Some(id) of the branch carrying the name.  The code
\* returns the first match in iteration order; every caller keeps names unique,
\* so there is at most one match.
NoneNamed(d, git_name) == {}
IdsNamed(d, git_name) == {i \in DOMAIN d.branches : d.branches[i].git_name = git_name}
find_branch_by_name(d, git_name) ==
    IF IdsNamed(d, git_name) = {} THEN None
    ELSE Some(CHOOSE i \in IdsNamed(d, git_name) : TRUE)

\* Dag::get_tracked_branch_names, for one iteration order of the map
get_tracked_branch_names(d, order) == [i \in DOMAIN order |-> d.branches[order[i]].git_name]

\* The two guarded pushes shared by both add-edge methods (dag.rs:120-132, 147-159).
LinkUnguarded(d, child_id, parent_id) ==
    LET d1 == [d EXCEPT !.branches[child_id].parents = PushAlways(@, parent_id)]
    IN  [d1 EXCEPT !.branches[parent_id].children = PushAlways(@, child_id)]
Link(d, child_id, parent_id) ==
    LET d1 == [d EXCEPT !.branches[child_id].parents = PushIfAbsent(@, parent_id)]
    IN  [d1 EXCEPT !.branches[parent_id].children = PushIfAbsent(@, child_id)]

\* Dag::add_parent_child_relationship_by_id(child_id, parent_id): Err leaves d as it is.
AddByIdRejectingSelf(d, child_id, parent_id) ==
    IF ~contains_branch(d, child_id) \/ ~contains_branch(d, parent_id) \/ child_id = parent_id
    THEN [ok |-> FALSE, dag |-> d]
    ELSE [ok |-> TRUE, dag |-> Link(d, child_id, parent_id)]
add_parent_child_relationship_by_id(d, child_id, parent_id) ==
    IF ~contains_branch(d, child_id) \/ ~contains_branch(d, parent_id)
    THEN [ok |-> FALSE, dag |-> d]
    ELSE [ok |-> TRUE, dag |-> Link(d, child_id, parent_id)]

\* Dag::add_parent_child_relationship(child_name, parent_name)
AddByNameChildHalfFirst(d, child_name, parent_name) ==
    LET c == find_branch_by_name(d, child_name)
        p == find_branch_by_name(d, parent_name)
    IN  IF c = None THEN [ok |-> FALSE, dag |-> d]
        ELSE IF p = None
        THEN [ok |-> FALSE,
              dag |-> [d EXCEPT !.branches[c[1]].parents = PushIfAbsent(@, d.next_branch_id)]]
        ELSE [ok |-> TRUE, dag |-> Link(d, c[1], p[1])]
add_parent_child_relationship(d, child_name, parent_name) ==
    LET c == find_branch_by_name(d, child_name)
        p == find_branch_by_name(d, parent_name)
    IN  IF c = None \/ p = None
        THEN [ok |-> FALSE, dag |-> d]
        ELSE [ok |-> TRUE, dag |-> Link(d, c[1], p[1])]

\* Dag::topological_sort (Kahn).  `order` is the order in which the HashMap
\* yields the branches, which seeds the queue.  The inner loop walks the
\* children of the popped branch; a degree below zero stands for the wrapped
\* usize, which never comes back to zero.
RECURSIVE KahnChildren(_, _, _)
KahnChildren(children, in_degree, queue) ==
    IF children = <<>> THEN [in_degree |-> in_degree, queue |-> queue]
    ELSE LET child_id == Head(children) IN
         IF child_id \in DOMAIN in_degree
         THEN LET deg == in_degree[child_id] - 1 IN
              KahnChildren(Tail(children),
                           [in_degree EXCEPT ![child_id] = deg],
                           IF deg = 0 THEN Append(queue, child_id) ELSE queue)
         ELSE KahnChildren(Tail(children), in_degree, queue)

RECURSIVE KahnLoop(_, _, _, _)
KahnLoop(d, in_degree, queue, result) ==
    IF queue = <<>> THEN result
    ELSE LET current_id == Head(queue)
             step == IF contains_branch(d, current_id)
                     THEN KahnChildren(d.branches[current_id].children, in_degree, Tail(queue))
                     ELSE [in_degree |-> in_degree, queue |-> Tail(queue)]
         IN  KahnLoop(d, step.in_degree, step.queue, Append(result, current_id))

\* The seeding of the queue (dag.rs:172-177): the branches without parents.
SeedAll(d, order) == order
SeedRoots(d, order) == SelectSeq(order, LAMBDA i : d.branches[i].parents = <<>>)

IterationOrder(d, order) == [ok |-> TRUE, ids |-> order]
topological_sort(d, order) ==
    LET in_degree == [i \in DOMAIN d.branches |-> Len(d.branches[i].parents)]
        result == KahnLoop(d, in_degree, SeedRoots(d, order), <<>>)
    IN  IF Len(result) # Cardinality(DOMAIN d.branches)
        THEN [ok |-> FALSE, ids |-> <<>>]
        ELSE [ok |-> TRUE, ids |-> result]

\* get_recursive_children (dag.rs:205-220): the loop over the stack.  Every
\* iteration pops one id, and ids are pushed only when an unvisited branch is
\* expanded, once per entry of its children list: a run that ends takes at
\* most 1 + (the lengths of all children lists) iterations.  done is FALSE
\* when the loop is still running after that many.
RECURSIVE ChildrenListsLen(_, _)
ChildrenListsLen(d, S) ==
    IF S = {} THEN 0
    ELSE LET i == CHOOSE x \in S : TRUE
         IN  Len(d.branches[i].children) + ChildrenListsLen(d, S \ {i})
VisitedInsertAlways(visited, current_id) == TRUE
VisitedInsert(visited, current_id) == current_id \notin visited
RECURSIVE RecursiveChildrenLoop(_, _, _, _)
RecursiveChildrenLoop(d, visited, stack, fuel) ==
    IF stack = <<>> THEN [visited |-> visited, done |-> TRUE]
    ELSE IF fuel = 0 THEN [visited |-> visited, done |-> FALSE]
    ELSE LET current_id == stack[Len(stack)]
             rest == SubSeq(stack, 1, Len(stack) - 1)
         IN  IF VisitedInsert(visited, current_id)
             THEN RecursiveChildrenLoop(d, visited \cup {current_id},
                      IF contains_branch(d, current_id)
                      THEN rest \o d.branches[current_id].children ELSE rest,
                      fuel - 1)
             ELSE RecursiveChildrenLoop(d, visited, rest, fuel - 1)
get_recursive_children(d, branch_id) ==
    RecursiveChildrenLoop(d, {}, <<branch_id>>, 1 + ChildrenListsLen(d, DOMAIN d.branches))

\* ------------------------------------------------------------------ git.rs
\* The repository history as relationship detection sees it: the set of commits
\* reachable from each branch name.  `git merge-base --is-ancestor a b` succeeds
\* when every commit of a is reachable from b; `git rev-list --count a..b`
\* counts the commits reachable from b and not from a.
Histories(names) == [names -> SUBSET Commits]
is_ancestor(h, ancestor, descendant) == h[ancestor] \subseteq h[descendant]
count_commits_between(h, from, to) == Cardinality(h[to] \ h[from])

\* u32::MAX, the initial min_distance of find_closest_parent.  The model's
\* integers end at 2^31 - 1 and its distances never exceed NumCommits.
U32_MAX == 2147483647

\* find_closest_parent: the loop over the candidates, carrying
\* (closest_parent, min_distance).
\* The loop without the test distance > 0.
RECURSIVE ClosestParentLoopAnyDistance(_, _, _, _, _)
ClosestParentLoopAnyDistance(h, target_branch, candidates, closest_parent, min_distance) ==
    IF candidates = <<>> THEN closest_parent
    ELSE LET candidate == Head(candidates)
             distance == count_commits_between(h, candidate, target_branch)
         IN  IF candidate # target_branch
                /\ is_ancestor(h, candidate, target_branch)
                /\ distance < min_distance
             THEN ClosestParentLoopAnyDistance(h, target_branch, Tail(candidates),
                                               Some(candidate), distance)
             ELSE ClosestParentLoopAnyDistance(h, target_branch, Tail(candidates),
                                               closest_parent, min_distance)
RECURSIVE ClosestParentLoop(_, _, _, _, _)
ClosestParentLoop(h, target_branch, candidates, closest_parent, min_distance) ==
    IF candidates = <<>> THEN closest_parent
    ELSE LET candidate == Head(candidates)
             distance == count_commits_between(h, candidate, target_branch)
         IN  IF candidate # target_branch
                /\ is_ancestor(h, candidate, target_branch)
                /\ distance > 0 /\ distance < min_distance
             THEN ClosestParentLoop(h, target_branch, Tail(candidates), Some(candidate), distance)
             ELSE ClosestParentLoop(h, target_branch, Tail(candidates), closest_parent, min_distance)

\* The first candidate that is an ancestor at a non-zero distance, whatever
\* the distance.
FirstAncestor(h, target_branch, candidate_branches) ==
    LET anc == SelectSeq(candidate_branches,
                         LAMBDA c : /\ c # target_branch
                                    /\ is_ancestor(h, c, target_branch)
                                    /\ count_commits_between(h, c, target_branch) > 0)
    IN  IF anc = <<>> THEN None ELSE Some(anc[1])

find_closest_parent(h, target_branch, candidate_branches) ==
    ClosestParentLoop(h, target_branch, candidate_branches, None, U32_MAX)

\* Every candidate that descends from the target at a non-zero distance,
\* whatever the distance.
AllDescendants(h, target_branch, candidate_branches) ==
    SelectSeq(candidate_branches,
              LAMBDA c : /\ c # target_branch
                         /\ is_ancestor(h, target_branch, c)
                         /\ count_commits_between(h, target_branch, c) > 0)

\* find_closest_children: the candidates kept by the loop, then, after the
\* stable sort by distance, those at the distance of the first element.
find_closest_children(h, target_branch, candidate_branches) ==
    LET children_with_distance ==
            SelectSeq(candidate_branches,
                      LAMBDA c : /\ c # target_branch
                                 /\ is_ancestor(h, target_branch, c)
                                 /\ count_commits_between(h, target_branch, c) > 0)
        dists == {count_commits_between(h, target_branch, c) : c \in Range(children_with_distance)}
    IN  IF children_with_distance = <<>> THEN <<>>
        ELSE LET min_distance == CHOOSE m \in dists : \A x \in dists : m <= x
             IN  SelectSeq(children_with_distance,
                           LAMBDA c : count_commits_between(h, target_branch, c) = min_distance)

\* What one run of `git checkout` + `git rebase` (+ `git rebase --abort`) can do.
RebaseOutcomes == {"ok", "checkout_failed", "conflict", "abort_failed"}
\* What `git rev-parse --verify origin/<name>` can do.
OriginChecks == {"exists", "absent", "error"}

\* rebase_branch(branch, target_branch) under one outcome of the git commands:
\* only a conflict whose abort succeeded stamps last_failed_rebase.  cmds
\* lists the git commands that were run.
StampOnAnyFailure(branch, target_branch, outcome) ==
    IF outcome = "ok"
    THEN [ok |-> TRUE, branch |-> [branch EXCEPT !.last_failed_rebase = None],
          cmds |-> <<"checkout", "rebase">>]
    ELSE [ok |-> FALSE, branch |-> [branch EXCEPT !.last_failed_rebase = Some(target_branch)],
          cmds |-> IF outcome = "checkout_failed" THEN <<"checkout">>
                   ELSE <<"checkout", "rebase", "rebase --abort">>]
rebase_branch(branch, target_branch, outcome) ==
    CASE outcome = "checkout_failed" ->
            [ok |-> FALSE, branch |-> branch, cmds |-> <<"checkout">>]
      [] outcome = "ok" ->
            [ok |-> TRUE, branch |-> [branch EXCEPT !.last_failed_rebase = None],
             cmds |-> <<"checkout", "rebase">>]
      [] outcome = "conflict" ->
            [ok |-> FALSE, branch |-> [branch EXCEPT !.last_failed_rebase = Some(target_branch)],
             cmds |-> <<"checkout", "rebase", "rebase --abort">>]
      [] OTHER -> [ok |-> FALSE, branch |-> branch,
                   cmds |-> <<"checkout", "rebase", "rebase --abort">>]

\* The working tree: the branch that is checked out (head) and whether a
\* rebase is in progress; start remembers the branch that was checked out when
\* the running command started.  UserBranch is the branch the user is on
\* before the first command.
UserBranch == "main"
NewTree == [head |-> UserBranch, rebasing |-> FALSE, start |-> UserBranch]

\* What the commands of rebase_branch (git.rs:216-247) leave in the working
\* tree: a checkout that fails changes nothing; otherwise the branch is
\* checked out, and a conflict whose abort failed leaves its rebase in progress.
CheckoutAndRebase(tree, branch_name, outcome) ==
    CASE outcome = "checkout_failed" -> tree
      [] outcome = "abort_failed" -> [tree EXCEPT !.head = branch_name, !.rebasing = TRUE]
      [] OTHER -> [tree EXCEPT !.head = branch_name, !.rebasing = FALSE]

\* The working tree after the runs of rebase_branch on branch_name with the
\* outcomes given, in order.
RECURSIVE TreeAfter(_, _, _)
TreeAfter(tree, branch_name, outcomes) ==
    IF outcomes = <<>> THEN tree
    ELSE TreeAfter(CheckoutAndRebase(tree, branch_name, Head(outcomes)),
                   branch_name, Tail(outcomes))

\* format!("origin/{}", branch_name)
OriginBranch(branch_name) == "origin/" \o branch_name

\* rebase_against_origin: res is "absent" (OriginDoesntExist), "error" (the
\* verify command could not run), or the outcome of rebase_branch.
rebase_against_origin(branch, check, outcome) ==
    CASE check = "absent" -> [res |-> "absent", branch |-> branch]
      [] check = "error" -> [res |-> "error", branch |-> branch]
      [] OTHER -> [res |-> outcome,
                   branch |-> rebase_branch(branch, OriginBranch(branch.git_name), outcome).branch]

\* What `gh pr create` can do: fail, print something with no pull/<number> in
\* it, or print the URL of the new pull request.
PrNumbers == 1..MaxPr
GhCreateOutcomes ==
    {[kind |-> "failed", n |-> 0], [kind |-> "unparsable", n |-> 0]}
        \cup {[kind |-> "url", n |-> k] : k \in PrNumbers}

\* create_pr_if_needed(branch, target_branch) under one outcome of gh:
\* res is "ok" (with the number n) or "err"; gh_called tells whether gh ran.
ReturnGhNumber(branch, gh) ==
    IF gh.kind = "url"
    THEN [res |-> "ok", n |-> gh.n, branch |-> [branch EXCEPT !.pr_number = Some(gh.n)],
          gh_called |-> TRUE]
    ELSE [res |-> "err", n |-> 0, branch |-> branch, gh_called |-> TRUE]
create_pr_if_needed(branch, gh) ==
    IF branch.pr_number # None
    THEN [res |-> "ok", n |-> branch.pr_number[1], branch |-> branch, gh_called |-> FALSE]
    ELSE ReturnGhNumber(branch, gh)

\* create_pr_for_branch(branch_id, dag) under one outcome of gh: res is "err",
\* "none" (Ok(None)), "some" (Ok(Some(n))) or "panic" (the todo! of the
\* multi-parent case).
NeverReturnEarly(branch) == FALSE
AlreadyHasPr(branch) == branch.pr_number # None
NoParentLimit(branch) == FALSE
TooManyParents(branch) == Len(branch.parents) > 1
create_pr_for_branch(branch_id, d, gh) ==
    LET quiet(res) == [res |-> res, n |-> 0, dag |-> d, gh_called |-> FALSE] IN
    IF ~contains_branch(d, branch_id) THEN quiet("err")
    ELSE
    LET branch == d.branches[branch_id] IN
    IF AlreadyHasPr(branch) THEN quiet("none")
    ELSE IF TooManyParents(branch) THEN quiet("panic")
    ELSE IF branch.parents = <<>> THEN quiet("none")
    ELSE IF ~contains_branch(d, branch.parents[1]) THEN quiet("err")
    ELSE LET r == create_pr_if_needed(branch, gh) IN
         [res |-> IF r.res = "ok" THEN "some" ELSE "err", n |-> r.n,
          dag |-> [d EXCEPT !.branches[branch_id] = r.branch],
          gh_called |-> r.gh_called]

\* update_pr_target / update_pr_target_for_branch: the graph is only read.
RetargetUnchecked(branch_id, d, gh_ok) == IF gh_ok THEN "ok" ELSE "gh_failed"
update_pr_target_for_branch(branch_id, d, gh_ok) ==
    IF ~contains_branch(d, branch_id) THEN "not_found"
    ELSE IF d.branches[branch_id].pr_number = None THEN "no_pr"
    ELSE IF gh_ok THEN "ok" ELSE "gh_failed"

\* ----------------------------------------------------------------- main.rs
\* What the last command step did (an observation of the run, not program state).
NoEvent ==
    [op |-> "none", id |-> 0, kind |-> "none", name |-> "", nparents |-> 0,
     origin |-> "untried", parent |-> "untried", target |-> None,
     prune_tested |-> FALSE, P |-> 0, children |-> <<>>, retarget |-> <<>>]

\* handle_track_command, after the branch was found not to be tracked yet.
\* `order` is the iteration order of get_tracked_branch_names and h the history
\* the git commands report.  When the git commands cannot be run both
\* detections return Err, a warning is printed and no edge is added: the same
\* graph as under a history in which all branches sit on one commit.
RECURSIVE AddChildren(_, _, _)
AddChildren(d, children, branch_to_track) ==
    IF children = <<>> THEN d
    ELSE AddChildren(add_parent_child_relationship(d, Head(children), branch_to_track).dag,
                     Tail(children), branch_to_track)

\* Tracking that takes the first tracked name as parent, with no detection.
TrackLinkFirst(d, branch_to_track, order, h) ==
    LET d1 == create_branch(d, branch_to_track)
        tracked_branches == get_tracked_branch_names(d1, order)
    IN  add_parent_child_relationship(d1, branch_to_track, tracked_branches[1]).dag

track_new_branch(d, branch_to_track, order, h) ==
    LET d1 == create_branch(d, branch_to_track)
        tracked_branches == get_tracked_branch_names(d1, order)
        parent == find_closest_parent(h, branch_to_track, tracked_branches)
        d2 == IF parent = None THEN d1
              ELSE add_parent_child_relationship(d1, branch_to_track, parent[1]).dag
        children == find_closest_children(h, branch_to_track, tracked_branches)
    IN  AddChildren(d2, children, branch_to_track)

\* should_skip (main.rs:225)
NeverSkip(branch, failed_branches) == FALSE
should_skip(branch, failed_branches) ==
    \E i \in DOMAIN branch.parents : branch.parents[i] \in failed_branches

\* main.rs:322-327: take the pruned branch out of its parents' children lists.
KeepInParents(d, branch_id, branch_parents) == d
DetachFromParents(d, branch_id, branch_parents) ==
    [d EXCEPT !.branches =
        [i \in DOMAIN @ |-> IF i \in Range(branch_parents)
                            THEN [@[i] EXCEPT !.children = RetainNot(@, branch_id)]
                            ELSE @[i]]]

\* The reparenting with the ids in the order of the callee's parameters.
ReparentChildAsDeclared(d, child_id, branch_id, parent_id) ==
    add_parent_child_relationship_by_id(
        [d EXCEPT !.branches[child_id].parents = RetainNot(@, branch_id)],
        child_id, parent_id)

\* main.rs:331-338: one child of the pruned branch.  The call is
\* add_parent_child_relationship_by_id(parent_id, child_id), whose first
\* parameter is the child id and whose second is the parent id.
ReparentChild(d, child_id, branch_id, parent_id) ==
    LET d1 == [d EXCEPT !.branches[child_id].parents = RetainNot(@, branch_id)]
    IN  add_parent_child_relationship_by_id(d1, parent_id, child_id)

\* main.rs:330-349: the loop over the former children; ok is false when the
\* unwrap of the add-edge result panics.
RECURSIVE ReparentLoop(_, _, _, _, _, _)
ReparentLoop(d, children, branch_id, parent_id, gh_ok, retarget) ==
    IF children = <<>> THEN [ok |-> TRUE, dag |-> d, retarget |-> retarget]
    ELSE LET child_id == Head(children) IN
         IF ~contains_branch(d, child_id)
         THEN ReparentLoop(d, Tail(children), branch_id, parent_id, gh_ok, retarget)
         ELSE LET r == ReparentChild(d, child_id, branch_id, parent_id) IN
              IF ~r.ok THEN [ok |-> FALSE, dag |-> r.dag, retarget |-> retarget]
              ELSE ReparentLoop(r.dag, Tail(children), branch_id, parent_id, gh_ok,
                                Append(retarget, update_pr_target_for_branch(child_id, r.dag, gh_ok)))

\* A prune that gives the graph back as it was when a retarget failed.
PruneRolledBack(d, branch_id, branch_parents, parent_id, gh_ok) ==
    LET r == ReparentLoop(DetachFromParents(remove_branch(d, branch_id), branch_id,
                                            branch_parents),
                          d.branches[branch_id].children, branch_id, parent_id, gh_ok, <<>>)
    IN  IF Range(r.retarget) \subseteq {"ok"} THEN r ELSE [r EXCEPT !.dag = d]

\* main.rs:309-354: the removal of a redundant branch.
prune(d, branch_id, branch_parents, parent_id, gh_ok) ==
    LET children == d.branches[branch_id].children
        d1 == remove_branch(d, branch_id)
        d2 == DetachFromParents(d1, branch_id, branch_parents)
    IN  ReparentLoop(d2, children, branch_id, parent_id, gh_ok, <<>>)

\* main.rs:244-253: the results of the origin step that set branch_failed.
OriginAbsentFails(res) == res # "ok"
OriginStepFailed(res) == res \notin {"ok", "absent"}

\* main.rs:257-260: the parent step is entered with more than one parent.
NoMultiParentCheck(branch_parents) == FALSE
MultipleParents(branch_parents) == Len(branch_parents) > 1

\* The inputs of one update_branch call: the outcomes of its external commands.
\* An outcome that the call never asks for is fixed, so that each run of the
\* call is enumerated once: the rebase onto origin is only run when the origin
\* branch exists, the parent rebase only when the origin step did not fail,
\* the ancestry test only after a parent rebase that succeeded, and gh only
\* after the ancestry test succeeded.
Oracles ==
    { o \in [origin : OriginChecks, origin_rebase : RebaseOutcomes,
             parent_rebase : RebaseOutcomes, is_ancestor : BOOLEAN, gh_ok : BOOLEAN] :
        /\ o.origin # "exists" => o.origin_rebase = "ok"
        /\ (o.origin = "error" \/ o.origin_rebase # "ok") => o.parent_rebase = "ok"
        /\ o.parent_rebase # "ok" => ~o.is_ancestor
        /\ ~o.is_ancestor => o.gh_ok }
DefaultOracle ==
    [origin |-> "absent", origin_rebase |-> "ok", parent_rebase |-> "ok",
     is_ancestor |-> FALSE, gh_ok |-> TRUE]

\* main.rs:230-234: the skipped branch goes to skipped_branches only.
RecordSkippedAsFailed(r, branch_id) ==
    [r EXCEPT !.skipped = @ \cup {branch_id}, !.failed = @ \cup {branch_id}]
RecordSkipped(r, branch_id) == [r EXCEPT !.skipped = @ \cup {branch_id}]

\* main.rs:351-354: the pruned branch goes to skipped_branches.
RecordPrunedAsFailed(r, branch_id) == [r EXCEPT !.failed = @ \cup {branch_id}]
RecordPruned(r, branch_id) == [r EXCEPT !.skipped = @ \cup {branch_id}]

\* update_branch (main.rs:205-359).  The result carries the graph, the two
\* sets, whether the call panicked, the outcomes of the runs of rebase_branch
\* it made (in order), and the observation of what it did.
update_branch(d, branch_id, failed_branches, skipped_branches, o) ==
    LET base == [dag |-> d, failed |-> failed_branches, skipped |-> skipped_branches,
                 panic |-> FALSE, rebases |-> <<>>,
                 ev |-> [NoEvent EXCEPT !.op = "update_branch", !.id = branch_id]]
    IN
    IF ~contains_branch(d, branch_id) THEN [base EXCEPT !.ev.kind = "missing"]
    ELSE
    LET branch == d.branches[branch_id]
        branch_name == branch.git_name
        branch_parents == branch.parents
        ev0 == [base.ev EXCEPT !.name = branch_name, !.nparents = Len(branch_parents)]
    IN
    IF should_skip(branch, failed_branches)
    THEN RecordSkipped([base EXCEPT !.ev = [ev0 EXCEPT !.kind = "skipped"]], branch_id)
    ELSE
    LET s1 == rebase_against_origin(branch, o.origin, o.origin_rebase)
        d1 == [d EXCEPT !.branches[branch_id] = s1.branch]
        base1 == [base EXCEPT !.dag = d1,
                              !.rebases = IF o.origin = "exists" THEN <<o.origin_rebase>>
                                          ELSE <<>>]
        ev1 == [ev0 EXCEPT !.origin = s1.res,
                           !.target = IF s1.res = "absent" THEN None
                                      ELSE Some(OriginBranch(branch_name))]
    IN
    IF OriginStepFailed(s1.res)
    THEN [base1 EXCEPT !.failed = @ \cup {branch_id},
                      !.ev = [ev1 EXCEPT !.kind = "failed"]]
    ELSE IF branch_parents = <<>>
    THEN [base1 EXCEPT !.ev = [ev1 EXCEPT !.kind = "done"]]
    ELSE IF MultipleParents(branch_parents)
    THEN [base1 EXCEPT !.panic = TRUE, !.ev = [ev1 EXCEPT !.kind = "panic"]]
    ELSE
    LET first_parent_id == branch_parents[1] IN
    IF ~contains_branch(d1, first_parent_id)
    THEN [base1 EXCEPT !.ev = [ev1 EXCEPT !.kind = "parent_missing"]]
    ELSE
    LET parent_name == d1.branches[first_parent_id].git_name
        s2 == rebase_branch(d1.branches[branch_id], parent_name, o.parent_rebase)
        d2 == [d1 EXCEPT !.branches[branch_id] = s2.branch]
        base2 == [base1 EXCEPT !.dag = d2, !.rebases = Append(@, o.parent_rebase)]
        ev2 == [ev1 EXCEPT !.parent = o.parent_rebase, !.target = Some(parent_name),
                           !.P = first_parent_id]
    IN
    IF ~s2.ok
    THEN [base2 EXCEPT !.failed = @ \cup {branch_id},
                      !.ev = [ev2 EXCEPT !.kind = "failed"]]
    ELSE IF ~o.is_ancestor
    THEN [base2 EXCEPT !.ev = [ev2 EXCEPT !.kind = "done", !.prune_tested = TRUE]]
    ELSE
    LET pr == prune(d2, branch_id, branch_parents, first_parent_id, o.gh_ok)
        ev3 == [ev2 EXCEPT !.prune_tested = TRUE, !.children = branch.children,
                           !.retarget = pr.retarget]
    IN
    IF ~pr.ok
    THEN [base2 EXCEPT !.dag = pr.dag, !.panic = TRUE, !.ev = [ev3 EXCEPT !.kind = "panic"]]
    ELSE RecordPruned([base2 EXCEPT !.dag = pr.dag, !.ev = [ev3 EXCEPT !.kind = "pruned"]],
                      branch_id)

\* The oracles that differ in an outcome the call on branch_id asks for: none
\* is asked for when the branch is skipped (or gone), only those of the origin
\* step when the parent step rebases nothing.
UsedOracles(d, branch_id, failed_branches) ==
    IF ~contains_branch(d, branch_id) THEN {DefaultOracle}
    ELSE IF should_skip(d.branches[branch_id], failed_branches) THEN {DefaultOracle}
    ELSE IF Len(d.branches[branch_id].parents) # 1
              \/ ~contains_branch(d, d.branches[branch_id].parents[1])
         THEN {o \in Oracles : o.parent_rebase = "ok" /\ ~o.is_ancestor}
         ELSE Oracles

\* What is kept of a step's observation between steps.
LastOf(ev) == [op |-> ev.op, id |-> ev.id, kind |-> ev.kind, retarget |-> ev.retarget]

\* ----------------------------------------------------------------- serde.rs
\* The JSON that the derived Serialize of Dag and Branch produce (dag.rs:4-41):
\* the map becomes an object whose keys are the ids in decimal, a Vec an
\* array in the same order, an Option null or the value; the counter is a
\* field like any other.
Digits == <<"0", "1", "2", "3", "4", "5", "6", "7", "8", "9">>
RECURSIVE ToStr(_)
ToStr(n) == IF n < 10 THEN Digits[n + 1] ELSE ToStr(n \div 10) \o Digits[(n % 10) + 1]
\* The key of an object parsed back to a BranchId.
FromStr(str) == CHOOSE n \in 0..(MaxId + 1) : ToStr(n) = str

JsonOption(o) == IF o = None THEN <<"null">> ELSE <<"value", o[1]>>
OptionFromJson(j) == IF j[1] = "null" THEN None ELSE Some(j[2])

BranchToJson(b) ==
    [uid |-> b.uid, parents |-> b.parents, children |-> b.children,
     git_name |-> b.git_name, last_failed_rebase |-> JsonOption(b.last_failed_rebase),
     pr_number |-> JsonOption(b.pr_number)]
BranchFromJson(j) ==
    [uid |-> j.uid, parents |-> j.parents, children |-> j.children,
     git_name |-> j.git_name, last_failed_rebase |-> OptionFromJson(j.last_failed_rebase),
     pr_number |-> OptionFromJson(j.pr_number)]

ToJson(d) ==
    [branches |-> {<<ToStr(k), BranchToJson(d.branches[k])>> : k \in DOMAIN d.branches},
     next_branch_id |-> d.next_branch_id]
FromJsonFreshCounter(j) ==
    [branches |-> [k \in {FromStr(e[1]) : e \in j.branches} |->
                      BranchFromJson((CHOOSE e \in j.branches : FromStr(e[1]) = k)[2])],
     next_branch_id |-> NewDag.next_branch_id]
FromJson(j) ==
    [branches |-> [k \in {FromStr(e[1]) : e \in j.branches} |->
                      BranchFromJson((CHOOSE e \in j.branches : FromStr(e[1]) = k)[2])],
     next_branch_id |-> j.next_branch_id]

\* The state file: whether it exists, and its text as a sequence of tokens,
\* each a whitespace character or a JSON value.
WhiteSpace == {" ", "\t", "\n"}
Blank(c) == [t |-> "ws", c |-> c, v |-> ToJson(NewDag)]
JsonValue(v) == [t |-> "json", c |-> "", v |-> v]
NoFile == [exists |-> FALSE, text |-> <<>>]

\* content.trim()
RECURSIVE TrimStart(_)
TrimStart(text) ==
    IF text # <<>> /\ Head(text).t = "ws" THEN TrimStart(Tail(text)) ELSE text
RECURSIVE TrimEnd(_)
TrimEnd(text) ==
    IF text # <<>> /\ text[Len(text)].t = "ws"
    THEN TrimEnd(SubSeq(text, 1, Len(text) - 1)) ELSE text
Trim(text) == TrimEnd(TrimStart(text))

\* read_dag_from_file (serde.rs:28-46) on the state file f; serde_json accepts
\* one value with whitespace around it and nothing else.
ParseAlways(f) == FALSE
NothingToParse(f) == ~f.exists \/ Trim(f.text) = <<>>
read_dag_from_file(f) ==
    IF NothingToParse(f) THEN [ok |-> TRUE, dag |-> NewDag]
    ELSE IF Len(Trim(f.text)) = 1 /\ Trim(f.text)[1].t = "json"
         THEN [ok |-> TRUE, dag |-> FromJson(Trim(f.text)[1].v)]
         ELSE [ok |-> FALSE, dag |-> NewDag]

\* write_dag_to_file (serde.rs:51-68): the file holds the JSON of the graph.
write_dag_to_file(d) == [exists |-> TRUE, text |-> <<JsonValue(ToJson(d))>>]

\* The graph that a later command reads after d was written.
Persisted(d) == read_dag_from_file(write_dag_to_file(d)).dag

\* ------------------------------------------------------------------- state
VARIABLES
    file,      \* the graph persisted in .dagit/dag.json
    dag,       \* the graph in the memory of the running command
    pc,        \* "idle", "sweep" (inside the loop of update), "done", "panicked", "exited"
    sorted,    \* sorted_branch_ids of the running update
    idx,       \* position of the loop in sorted (1-based)
    failed,    \* failed_branches
    skipped,   \* skipped_branches
    call,      \* the last call of a function that is checked alone: inputs and result
    last,      \* what the last step did
    tree       \* the working tree of the repository, as SpecTree follows it

vars == <<file, dag, pc, sorted, idx, failed, skipped, call, last, tree>>

\* No function was called yet.
NoCall ==
    [fn |-> "none", h |-> <<>>, target |-> "", candidates |-> <<>>,
     parent |-> None, children |-> <<>>,
     id |-> 0, res |-> "", n |-> 0, gh_called |-> FALSE,
     visited |-> {}, done |-> FALSE, content |-> NoFile]

Init ==
    /\ file = NewDag
    /\ dag = NewDag
    /\ pc = "idle"
    /\ sorted = <<>>
    /\ idx = 1
    /\ failed = {}
    /\ skipped = {}
    /\ call = NoCall
    /\ last = LastOf(NoEvent)
    /\ tree = NewTree

\* No command is running: the previous one returned, exited or panicked.
AtPrompt == pc # "sweep"

\* The variables of a sweep, as a command that runs no sweep leaves them.
NoSweep ==
    /\ sorted' = <<>>
    /\ idx' = 1
    /\ failed' = {}
    /\ skipped' = {}

\* handle_track_command (main.rs:125-203)
Track(branch_to_track) ==
    /\ AtPrompt
    /\ NoSweep
    /\ pc' = "idle"
    /\ IF IdsNamed(file, branch_to_track) # {}
       THEN /\ file' = file
            /\ dag' = file
            /\ last' = LastOf([NoEvent EXCEPT !.op = "track", !.kind = "already_tracked"])
       ELSE /\ file.next_branch_id <= MaxId
            /\ \E i \in DOMAIN NameOrder :
                  NameOrder[i] = branch_to_track /\ i <= file.next_branch_id
            /\ \E h \in Histories({file.branches[i].git_name : i \in DOMAIN file.branches}
                                   \cup {branch_to_track}),
                  order \in Orders(DOMAIN file.branches \cup {file.next_branch_id}) :
                  /\ dag' = track_new_branch(file, branch_to_track, order, h)
                  /\ file' = Persisted(dag')
            /\ last' = LastOf([NoEvent EXCEPT !.op = "track", !.kind = "tracked",
                                       !.id = file.next_branch_id])
    /\ UNCHANGED <<call, tree>>

\* std::process::exit(1) of handle_update_command after a failed fetch
\* (main.rs:380-383) or a failed sort (main.rs:388-391): no sweep is run.
SweepNothing(kind) ==
    /\ NoSweep
    /\ dag' = file
    /\ pc' = "sweep"
    /\ last' = LastOf([NoEvent EXCEPT !.op = "update", !.kind = kind])
ExitUpdate(kind) ==
    /\ NoSweep
    /\ dag' = file
    /\ pc' = "exited"
    /\ last' = LastOf([NoEvent EXCEPT !.op = "update", !.kind = kind])

\* handle_update_command up to the loop (main.rs:361-398)
UpdateStartCore ==
    /\ AtPrompt
    /\ file' = file
    /\ \/ /\ file.branches = NewDag.branches
          /\ NoSweep
          /\ dag' = file
          /\ pc' = "done"
          /\ last' = LastOf([NoEvent EXCEPT !.op = "update", !.kind = "empty"])
       \/ /\ file.branches # NewDag.branches
          /\ ExitUpdate("fetch_failed")
       \/ /\ file.branches # NewDag.branches
          /\ \E order \in Orders(DOMAIN file.branches) :
                LET r == topological_sort(file, order) IN
                IF r.ok
                THEN /\ sorted' = r.ids
                     /\ idx' = 1
                     /\ failed' = {}
                     /\ skipped' = {}
                     /\ dag' = file
                     /\ pc' = "sweep"
                     /\ last' = LastOf([NoEvent EXCEPT !.op = "update", !.kind = "sorted"])
                ELSE ExitUpdate("cycle")

\* The outcomes of the git commands are inputs of UpdateStep, which does not
\* follow the working tree.
UpdateStart ==
    /\ UpdateStartCore
    /\ UNCHANGED <<call, tree>>

\* One iteration of the loop (main.rs:401-403): update_branch on sorted[idx].
\* A panic ends the process; the file keeps the graph it had.
\* The state file after a call of update_branch, which does not write it.
WriteThrough(r) == Persisted(r.dag)
FileAfterStep(r) == file
UpdateStepOn(o) ==
    /\ LET r == update_branch(dag, sorted[idx], failed, skipped, o) IN
          /\ file' = FileAfterStep(r)
          /\ dag' = IF r.panic THEN file ELSE r.dag
          /\ failed' = r.failed
          /\ skipped' = r.skipped
          /\ last' = LastOf(r.ev)
          /\ pc' = IF r.panic THEN "panicked" ELSE "sweep"
          /\ idx' = IF r.panic THEN idx ELSE idx + 1
    /\ UNCHANGED sorted
UpdateStep ==
    /\ pc = "sweep"
    /\ idx <= Len(sorted)
    /\ \E o \in UsedOracles(dag, sorted[idx], failed) : UpdateStepOn(o)
    /\ UNCHANGED <<call, tree>>

\* The end of handle_update_command (main.rs:405-429): the graph is written.
UpdateFinish ==
    /\ pc = "sweep"
    /\ idx > Len(sorted)
    /\ file' = Persisted(dag)
    /\ pc' = "done"
    /\ last' = LastOf([NoEvent EXCEPT !.op = "update", !.kind = "written"])
    /\ UNCHANGED <<dag, sorted, idx, failed, skipped>>
    /\ UNCHANGED <<call, tree>>

\* The loop of handle_submit_command (main.rs:463-488) under the outcomes ghs
\* of gh, one per branch; a panic of create_pr_for_branch ends the process.
RECURSIVE SubmitStopAtError(_, _, _)
SubmitStopAtError(d, ids, ghs) ==
    IF ids = <<>> THEN [dag |-> d, panic |-> FALSE, evs |-> <<>>]
    ELSE LET r == create_pr_for_branch(Head(ids), d, ghs[Head(ids)])
             ev == [id |-> Head(ids), res |-> r.res]
         IN  IF r.res = "panic" THEN [dag |-> d, panic |-> TRUE, evs |-> <<ev>>]
             ELSE IF r.res = "err" THEN [dag |-> r.dag, panic |-> FALSE, evs |-> <<ev>>]
             ELSE LET rest == SubmitStopAtError(r.dag, Tail(ids), ghs) IN
                  [rest EXCEPT !.evs = <<ev>> \o @]
RECURSIVE SubmitLoop(_, _, _)
SubmitLoop(d, ids, ghs) ==
    IF ids = <<>> THEN [dag |-> d, panic |-> FALSE, evs |-> <<>>]
    ELSE LET r == create_pr_for_branch(Head(ids), d, ghs[Head(ids)])
             ev == [id |-> Head(ids), res |-> r.res]
         IN  IF r.res = "panic" THEN [dag |-> d, panic |-> TRUE, evs |-> <<ev>>]
             ELSE LET rest == SubmitLoop(r.dag, Tail(ids), ghs) IN
                  [rest EXCEPT !.evs = <<ev>> \o @]

\* The outcomes of gh for a submit over d: fixed for the branches whose call
\* returns before gh is run.  No command reads the value of a pr_number
\* other than to hand it to gh, so every new pull request gets the number 1.
SubmitOracles(d) ==
    {ghs \in [DOMAIN d.branches -> {g \in GhCreateOutcomes : g.n <= 1}] :
        \A i \in DOMAIN d.branches :
            (d.branches[i].pr_number # None \/ Len(d.branches[i].parents) # 1)
                => ghs[i].kind = "failed"}

\* handle_submit_command (main.rs:432-510)
Submit ==
    /\ AtPrompt
    /\ NoSweep
    /\ \/ /\ file.branches = NewDag.branches
          /\ file' = file
          /\ dag' = file
          /\ pc' = "done"
          /\ last' = LastOf([NoEvent EXCEPT !.op = "submit", !.kind = "empty"])
       \/ /\ file.branches # NewDag.branches
          /\ \E order \in Orders(DOMAIN file.branches) :
                LET r == topological_sort(file, order) IN
                IF ~r.ok
                THEN /\ file' = file
                     /\ dag' = file
                     /\ pc' = "exited"
                     /\ last' = LastOf([NoEvent EXCEPT !.op = "submit", !.kind = "cycle"])
                ELSE \E ghs \in SubmitOracles(file) :
                        LET s == SubmitLoop(file, r.ids, ghs) IN
                        /\ dag' = IF s.panic THEN file ELSE s.dag
                        /\ file' = IF s.panic THEN file ELSE Persisted(s.dag)
                        /\ pc' = IF s.panic THEN "panicked" ELSE "done"
                        /\ last' = LastOf([NoEvent EXCEPT
                                             !.op = "submit",
                                             !.kind = IF s.panic THEN "panic" ELSE "submitted"])
    /\ UNCHANGED <<call, tree>>

Next ==
    \/ \E n \in Names : Track(n)
    \/ UpdateStart
    \/ UpdateStep
    \/ UpdateFinish
    \/ Submit

Spec == Init /\ [][Next]_vars

\* -------------------------------------------------- the graph store alone
\* The public methods of Dag applied to the graph in memory, in any order.
RECURSIVE SumLen(_, _)
SumLen(m, S) ==
    IF S = {} THEN 0
    ELSE LET i == CHOOSE x \in S : TRUE IN Len(m[i].parents) + SumLen(m, S \ {i})
EdgeCount(d) == SumLen(d.branches, DOMAIN d.branches)

\* How an add-edge call ended: Err, an edge that was there already, a new edge.
AddKind(d, r) == IF ~r.ok THEN "err" ELSE IF r.dag = d THEN "again" ELSE "new"

StoreCreate(git_name) ==
    /\ IdsNamed(dag, git_name) = {}
    /\ dag.next_branch_id <= MaxId
    /\ \E i \in DOMAIN NameOrder : NameOrder[i] = git_name /\ i <= dag.next_branch_id
    /\ dag' = create_branch(dag, git_name)
    /\ sorted' = <<>>
    /\ last' = LastOf([NoEvent EXCEPT !.op = "create_branch", !.id = dag.next_branch_id])
    /\ UNCHANGED <<file, pc, idx, failed, skipped>>
    /\ UNCHANGED <<call, tree>>

StoreAddByName(child_name, parent_name) ==
    /\ LET r == add_parent_child_relationship(dag, child_name, parent_name) IN
       /\ dag' = r.dag
       /\ last' = LastOf([NoEvent EXCEPT !.op = "add_by_name", !.kind = AddKind(dag, r)])
    /\ EdgeCount(dag') <= MaxEdges
    /\ sorted' = <<>>
    /\ UNCHANGED <<file, pc, idx, failed, skipped>>
    /\ UNCHANGED <<call, tree>>

StoreAddById(child_id, parent_id) ==
    /\ LET r == add_parent_child_relationship_by_id(dag, child_id, parent_id) IN
       /\ dag' = r.dag
       /\ last' = LastOf([NoEvent EXCEPT !.op = "add_by_id", !.kind = AddKind(dag, r)])
    /\ EdgeCount(dag') <= MaxEdges
    /\ sorted' = <<>>
    /\ UNCHANGED <<file, pc, idx, failed, skipped>>
    /\ UNCHANGED <<call, tree>>

\* topological_sort on the graph as it stands; sorted keeps the result until
\* the graph changes.
StoreSort ==
    /\ \E order \in Orders(DOMAIN dag.branches) :
          LET r == topological_sort(dag, order) IN
          /\ sorted' = r.ids
          /\ last' = LastOf([NoEvent EXCEPT !.op = "topological_sort",
                                     !.kind = IF r.ok THEN "ok" ELSE "cycle"])
    /\ UNCHANGED <<file, dag, pc, idx, failed, skipped>>
    /\ UNCHANGED <<call, tree>>

NextStore ==
    \/ \E n \in Names : StoreCreate(n)
    \/ \E c, p \in Names : StoreAddByName(c, p)
    \/ \E c, p \in Ids : StoreAddById(c, p)
    \/ StoreSort

SpecStore == Init /\ [][NextStore]_vars

\* ------------------------------------------------- ids, persist and reload
\* The methods of Dag that allocate and drop ids, with persist and reload.
IdsCreate(git_name) ==
    /\ IdsNamed(dag, git_name) = {}
    /\ dag.next_branch_id <= MaxId
    /\ dag' = create_branch(dag, git_name)
    /\ last' = LastOf([NoEvent EXCEPT !.op = "create_branch", !.id = dag.next_branch_id])
    /\ UNCHANGED <<file, pc, sorted, idx, failed, skipped>>
    /\ UNCHANGED <<call, tree>>

IdsInsert(k, git_name) ==
    /\ IdsNamed(dag, git_name) \subseteq {k}
    /\ dag' = insert_branch(dag, with_id(k, git_name))
    /\ last' = LastOf([NoEvent EXCEPT !.op = "insert_branch", !.id = k])
    /\ UNCHANGED <<file, pc, sorted, idx, failed, skipped>>
    /\ UNCHANGED <<call, tree>>

IdsRemove(k) ==
    /\ contains_branch(dag, k)
    /\ dag' = remove_branch(dag, k)
    /\ last' = LastOf([NoEvent EXCEPT !.op = "remove_branch", !.id = k])
    /\ UNCHANGED <<file, pc, sorted, idx, failed, skipped>>
    /\ UNCHANGED <<call, tree>>

IdsPersist ==
    /\ file' = Persisted(dag)
    /\ last' = LastOf([NoEvent EXCEPT !.op = "write_dag_to_file"])
    /\ UNCHANGED <<dag, pc, sorted, idx, failed, skipped>>
    /\ UNCHANGED <<call, tree>>

IdsReload ==
    /\ dag' = file
    /\ last' = LastOf([NoEvent EXCEPT !.op = "read_dag_from_file"])
    /\ UNCHANGED <<file, pc, sorted, idx, failed, skipped>>
    /\ UNCHANGED <<call, tree>>

NextIds ==
    \/ \E n \in Names : IdsCreate(n)
    \/ \E k \in Ids, n \in Names : IdsInsert(k, n)
    \/ \E k \in Ids : IdsRemove(k)
    \/ IdsPersist
    \/ IdsReload

SpecIds == Init /\ [][NextIds]_vars

\* --------------------------------------------- relationship detection alone
\* The branches of a repository the detection functions are called on; the
\* candidates are any list without repetition, the target included or not.
GitNames == {"a", "b", "c", "d"}
CandidateLists == UNION {Orders(S) : S \in SUBSET GitNames}

InitGit ==
    /\ file = NewDag
    /\ dag = NewDag
    /\ pc = "idle"
    /\ sorted = <<>>
    /\ idx = 1
    /\ failed = {}
    /\ skipped = {}
    /\ last = LastOf(NoEvent)
    /\ tree = NewTree
    /\ \E h \in Histories(GitNames), target \in GitNames, candidates \in CandidateLists :
          call = [NoCall EXCEPT !.h = h, !.target = target, !.candidates = candidates]

GitFindParent ==
    /\ call.fn = "none"
    /\ call' = [call EXCEPT !.fn = "find_closest_parent",
                            !.parent = find_closest_parent(call.h, call.target, call.candidates)]
    /\ UNCHANGED <<file, dag, pc, sorted, idx, failed, skipped, last, tree>>

GitFindChildren ==
    /\ call.fn = "none"
    /\ call' = [call EXCEPT !.fn = "find_closest_children",
                            !.children = find_closest_children(call.h, call.target, call.candidates)]
    /\ UNCHANGED <<file, dag, pc, sorted, idx, failed, skipped, last, tree>>

NextGit ==
    \/ GitFindParent
    \/ GitFindChildren

SpecGit == InitGit /\ [][NextGit]_vars

\* ------------------------------------------------------ pull requests alone
\* The functions of git.rs that create and retarget pull requests, called on
\* graphs that create_branch and add-edge build first.  The functions read a
\* branch's pr_number, the length of its parents list and its first parent:
\* edges from a later to an earlier branch give every case of them.
PrCreateForBranch(branch_id, gh) ==
    /\ LET r == create_pr_for_branch(branch_id, dag, gh) IN
       /\ dag' = r.dag
       /\ call' = [NoCall EXCEPT !.fn = "create_pr_for_branch", !.id = branch_id,
                                 !.res = r.res, !.n = r.n, !.gh_called = r.gh_called]
    /\ UNCHANGED <<file, pc, sorted, idx, failed, skipped, last, tree>>

PrCreateIfNeeded(branch_id, gh) ==
    /\ contains_branch(dag, branch_id)
    /\ LET r == create_pr_if_needed(dag.branches[branch_id], gh) IN
       /\ dag' = [dag EXCEPT !.branches[branch_id] = r.branch]
       /\ call' = [NoCall EXCEPT !.fn = "create_pr_if_needed", !.id = branch_id,
                                 !.res = r.res, !.n = r.n, !.gh_called = r.gh_called]
    /\ UNCHANGED <<file, pc, sorted, idx, failed, skipped, last, tree>>

PrRetarget(branch_id, gh_ok) ==
    /\ LET r == update_pr_target_for_branch(branch_id, dag, gh_ok) IN
       call' = [NoCall EXCEPT !.fn = "update_pr_target_for_branch", !.id = branch_id,
                              !.res = r, !.gh_called = r \in {"ok", "gh_failed"}]
    /\ UNCHANGED <<file, dag, pc, sorted, idx, failed, skipped, last, tree>>

PrCreateBranch(git_name) ==
    /\ StoreCreate(git_name)
    /\ call = NoCall

PrAddEdge(child_id, parent_id) ==
    /\ parent_id < child_id
    /\ StoreAddById(child_id, parent_id)
    /\ call = NoCall

NextPr ==
    \/ \E n \in Names : PrCreateBranch(n)
    \/ \E c, p \in Ids : PrAddEdge(c, p)
    \/ \E i \in Ids, gh \in GhCreateOutcomes : PrCreateForBranch(i, gh)
    \/ \E i \in Ids, gh \in GhCreateOutcomes : PrCreateIfNeeded(i, gh)
    \/ \E i \in Ids, gh_ok \in BOOLEAN : PrRetarget(i, gh_ok)

SpecPr == Init /\ [][NextPr]_vars

\* ------------------------------------------------ recursive children alone
\* get_recursive_children called on the graphs that create_branch and the two
\* add-edge methods build (cyclic ones among them), with any id, tracked or
\* not.
DescCreate(git_name) ==
    /\ StoreCreate(git_name)
    /\ call = NoCall

DescAddByName(child_name, parent_name) ==
    /\ StoreAddByName(child_name, parent_name)
    /\ call = NoCall

DescAddById(child_id, parent_id) ==
    /\ StoreAddById(child_id, parent_id)
    /\ call = NoCall

DescCall(branch_id) ==
    /\ call = NoCall
    /\ LET r == get_recursive_children(dag, branch_id) IN
       call' = [NoCall EXCEPT !.fn = "get_recursive_children", !.id = branch_id,
                              !.visited = r.visited, !.done = r.done]
    /\ UNCHANGED <<file, dag, pc, sorted, idx, failed, skipped, last, tree>>

NextDesc ==
    \/ \E n \in Names : DescCreate(n)
    \/ \E c, p \in Names : DescAddByName(c, p)
    \/ \E c, p \in Ids : DescAddById(c, p)
    \/ \E i \in 1..(MaxId + 1) : DescCall(i)

SpecDesc == Init /\ [][NextDesc]_vars

\* --------------------------------------------------- loading the state file
\* A command's read of the state file, on a file that is missing, blank, or
\* was written by an earlier command (with or without a newline added after
\* it), followed by track commands.
BlankTexts ==
    UNION {[1..n -> {Blank(c) : c \in WhiteSpace}] : n \in 0..MaxBlank}
WrittenFiles ==
    {write_dag_to_file(d) : d \in {NewDag, create_branch(NewDag, NameOrder[1])}}
StartFiles ==
    {NoFile} \cup {[exists |-> TRUE, text |-> t] : t \in BlankTexts}
        \cup WrittenFiles
        \cup {[f EXCEPT !.text = Append(@, Blank("\n"))] : f \in WrittenFiles}

InitLoad ==
    /\ file = NewDag
    /\ dag = NewDag
    /\ pc = "idle"
    /\ sorted = <<>>
    /\ idx = 1
    /\ failed = {}
    /\ skipped = {}
    /\ last = LastOf(NoEvent)
    /\ tree = NewTree
    /\ \E f \in StartFiles : call = [NoCall EXCEPT !.content = f]

LoadRead ==
    /\ call.fn = "none"
    /\ LET r == read_dag_from_file(call.content) IN
       /\ call' = [call EXCEPT !.fn = "read_dag_from_file",
                               !.res = IF r.ok THEN "ok" ELSE "err"]
       /\ dag' = r.dag
       /\ file' = r.dag
    /\ last' = LastOf([NoEvent EXCEPT !.op = "read_dag_from_file"])
    /\ UNCHANGED <<pc, sorted, idx, failed, skipped, tree>>

LoadTrack(branch_to_track) ==
    /\ call.fn = "read_dag_from_file"
    /\ call.res = "ok"
    /\ Track(branch_to_track)

NextLoad ==
    \/ LoadRead
    \/ \E n \in Names : LoadTrack(n)

SpecLoad == InitLoad /\ [][NextLoad]_vars

\* ------------------------------------------- update and the working tree
\* The update command with the working tree followed through the runs of
\* rebase_branch: the same steps as in Spec, with tree as the git commands of
\* each step leave it.  No command of the program checks out anything else.
TreeStart ==
    /\ UpdateStartCore
    /\ tree' = [tree EXCEPT !.start = tree.head]
    /\ UNCHANGED call

TreeStep ==
    /\ pc = "sweep"
    /\ idx <= Len(sorted)
    /\ \E o \in UsedOracles(dag, sorted[idx], failed) :
          /\ UpdateStepOn(o)
          /\ tree' = IF contains_branch(dag, sorted[idx])
                      THEN TreeAfter(tree, dag.branches[sorted[idx]].git_name,
                                     update_branch(dag, sorted[idx], failed, skipped, o).rebases)
                      ELSE tree
    /\ UNCHANGED call

NextTree ==
    \/ \E n \in Names : Track(n)
    \/ TreeStart
    \/ TreeStep
    \/ UpdateFinish

SpecTree == Init /\ [][NextTree]_vars

\* ------------------------------------------------- a whole sweep as a value
\* The loop of handle_update_command (main.rs:401-403) run to its end under
\* the outcomes orc, one oracle per branch name; evs holds what each call of
\* update_branch did, in the order of the calls.
RECURSIVE SweepLoop(_, _, _, _, _)
SweepLoop(d, ids, failed_branches, skipped_branches, orc) ==
    IF ids = <<>>
    THEN [dag |-> d, failed |-> failed_branches, skipped |-> skipped_branches,
          panic |-> FALSE, evs |-> <<>>]
    ELSE LET branch_id == Head(ids)
             o == IF contains_branch(d, branch_id)
                  THEN orc[d.branches[branch_id].git_name] ELSE DefaultOracle
             r == update_branch(d, branch_id, failed_branches, skipped_branches, o)
         IN  IF r.panic
             THEN [dag |-> d, failed |-> r.failed, skipped |-> r.skipped, panic |-> TRUE,
                   evs |-> <<r.ev>>]
             ELSE [SweepLoop(r.dag, Tail(ids), r.failed, r.skipped, orc)
                       EXCEPT !.evs = <<r.ev>> \o @]

\* handle_update_command on the graph d (not empty, fetch succeeded): done is
\* TRUE when the command got to write the graph, which is then dag.
RunSweep(d, order, orc) ==
    LET t == topological_sort(d, order) IN
    IF ~t.ok
    THEN [done |-> FALSE, dag |-> d, failed |-> {}, skipped |-> {}, sorted |-> <<>>,
          evs |-> <<>>]
    ELSE LET r == SweepLoop(d, t.ids, {}, {}, orc)
         IN  [done |-> ~r.panic, dag |-> r.dag, failed |-> r.failed,
              skipped |-> r.skipped, sorted |-> t.ids, evs |-> r.evs]

\* A repository in which nothing goes wrong: origin/<name> exists or not as
\* om says, every rebase succeeds, and the branch rebased onto its parent has
\* the parent as an ancestor.
CleanOracles(om) ==
    [n \in Names |-> [origin |-> om[n], origin_rebase |-> "ok", parent_rebase |-> "ok",
                      is_ancestor |-> TRUE, gh_ok |-> TRUE]]
OriginMaps == [Names -> {"exists", "absent"}]

\* ------------------------------------------------------------------ claims
\* The loop of update is about to call update_branch on cur.
InSweepStep == pc = "sweep" /\ idx <= Len(sorted)
cur == sorted[idx]
\* The call the loop is about to make, under the outcomes o.
Run(o) == update_branch(dag, cur, failed, skipped, o)

ParentsOf(d, i) == Range(d.branches[i].parents)
ChildrenOf(d, i) == Range(d.branches[i].children)

\* C1: when the sweep prunes branch X with parent P, then afterwards X is not
\* in the graph, P.children holds every former child of X and not X, and every
\* former child of X has P among its parents and no longer X.
C1_PrunePostcondition ==
    [][ (InSweepStep /\ last'.kind = "pruned") =>
        LET X == cur
            P == dag.branches[X].parents[1]
            kids == ChildrenOf(dag, X) \cap DOMAIN dag'.branches
        IN  /\ X \notin DOMAIN dag'.branches
            /\ P \in DOMAIN dag'.branches
            /\ X \notin ChildrenOf(dag', P)
            /\ \A c \in kids : /\ c \in ChildrenOf(dag', P)
                               /\ P \in ParentsOf(dag', c)
                               /\ X \notin ParentsOf(dag', c) ]_vars

\* Parent/child symmetry and referential integrity of one graph.
Symmetric(d) ==
    \A a, b \in DOMAIN d.branches : b \in ParentsOf(d, a) <=> a \in ChildrenOf(d, b)
ReferencesExist(d) ==
    \A a \in DOMAIN d.branches :
        ParentsOf(d, a) \cup ChildrenOf(d, a) \subseteq DOMAIN d.branches

\* C2: in every state reached by track and update steps (prune included), for
\* all branches a, b of the graph, b is a parent of a iff a is a child of b,
\* and every id in a parents or children list is the id of a branch of the
\* graph; this holds of the graph in memory and of the persisted one.
C2_SymmetryAndIntegrity ==
    /\ Symmetric(dag) /\ ReferencesExist(dag)
    /\ Symmetric(file) /\ ReferencesExist(file)

\* C2 witness: a prune has just rewired a graph that still has an edge.
C2_Witness ==
    /\ last.kind = "pruned"
    /\ \E a \in DOMAIN dag.branches : dag.branches[a].parents # <<>>

\* A direct parent of cur is in failed_branches as its turn comes.
ParentFailedAtTurn == \E p \in ParentsOf(dag, cur) : p \in failed

\* C3: if at a branch's turn one of its direct parents is in failed, the
\* branch is added to skipped, no checkout, remote rebase, parent rebase or
\* prune test is performed for it and the graph (its record included) stays as
\* it is; a branch none of whose direct parents is in failed is not skipped:
\* its remote step is run.
C3_SkipOnFailedParent ==
    [][ (InSweepStep /\ contains_branch(dag, cur)) =>
        IF ParentFailedAtTurn
        THEN /\ last'.kind = "skipped"
             /\ skipped' = skipped \cup {cur}
             /\ failed' = failed
             /\ dag' = dag
             /\ \A o \in Oracles :
                   /\ Run(o).ev.origin = "untried"
                   /\ Run(o).ev.parent = "untried"
                   /\ ~Run(o).ev.prune_tested
        ELSE /\ last'.kind # "skipped"
             /\ \A o \in Oracles : Run(o).ev.origin # "untried" ]_vars

\* C3 witness: a branch has just been skipped because a parent of it failed.
C3_Witness ==
    /\ last.kind = "skipped"
    /\ last.id \in skipped
    /\ \E p \in ParentsOf(dag, last.id) : p \in failed

\* Reachability along parent edges: the ids from which i is reached.
RECURSIVE AncestorsUpTo(_, _, _)
AncestorsUpTo(d, S, n) ==
    IF n = 0 THEN S
    ELSE LET T == S \cup UNION {ParentsOf(d, x) \cap DOMAIN d.branches : x \in S}
         IN  IF T = S THEN S ELSE AncestorsUpTo(d, T, n - 1)
Ancestors(d, i) ==
    AncestorsUpTo(d, ParentsOf(d, i) \cap DOMAIN d.branches, Cardinality(DOMAIN d.branches))
HasCycle(d) == \E i \in DOMAIN d.branches : i \in Ancestors(d, i)

\* ids holds every branch of d exactly once, each after all its parents.
IsTopologicalOrder(d, ids) ==
    /\ Range(ids) = DOMAIN d.branches
    /\ Len(ids) = Cardinality(DOMAIN d.branches)
    /\ \A i, j \in DOMAIN ids : ids[j] \in ParentsOf(d, ids[i]) => j < i

\* C4: for every graph satisfying parent/child symmetry, topological_sort
\* returns the cycle error iff the parent relation has a cycle, and otherwise
\* a sequence holding every branch id exactly once with every parent before
\* each of its children; this for every iteration order of the map, and for
\* the result the store has just computed.
C4_TopologicalSort ==
    Symmetric(dag) =>
        /\ \A order \in Orders(DOMAIN dag.branches) :
              LET r == topological_sort(dag, order) IN
              /\ r.ok <=> ~HasCycle(dag)
              /\ r.ok => IsTopologicalOrder(dag, r.ids)
        /\ last.op = "topological_sort" =>
              /\ last.kind = "cycle" <=> HasCycle(dag)
              /\ last.kind = "ok" => IsTopologicalOrder(dag, sorted)

\* C4 witness: the sort has just succeeded on three branches with two edges
\* or more.
C4_Witness ==
    /\ last.op = "topological_sort" /\ last.kind = "ok"
    /\ Len(sorted) = 3
    /\ EdgeCount(dag) >= 2

\* C5: the sweep calls update_branch once for every branch that was in the
\* graph when the sweep started (the persisted graph), one after the other in
\* the order of sorted; a branch's turn comes after the turn of every one of
\* its ancestors in that graph; failed and skipped only hold branches whose
\* turn is over; a branch whose turn is still to come is still in the graph,
\* so a pruned branch is not processed again; a sweep that writes the graph
\* back has given every branch of sorted its turn.
C5_SweepOrder ==
    /\ pc = "sweep" =>
        /\ Range(sorted) = DOMAIN file.branches
        /\ Len(sorted) = Cardinality(DOMAIN file.branches)
        /\ \A i, j \in DOMAIN sorted : sorted[j] \in Ancestors(file, sorted[i]) => j < i
        /\ idx \in 1..(Len(sorted) + 1)
        /\ last.op = "update_branch" => idx > 1 /\ last.id = sorted[idx - 1]
        /\ failed \cup skipped \subseteq {sorted[k] : k \in 1..(idx - 1)}
        /\ \A k \in idx..Len(sorted) : contains_branch(dag, sorted[k])
    /\ (pc = "done" /\ last.kind = "written") => idx = Len(sorted) + 1

\* C5 witness: the third turn of a sweep is over, after a prune earlier in it.
C5_Witness ==
    /\ pc = "sweep" /\ idx = 4
    /\ \E i \in skipped : ~contains_branch(dag, i)
    /\ \E i \in DOMAIN file.branches : Cardinality(Ancestors(file, i)) = 2

\* C6: no parent rebase is run for a branch that has more than one parent at
\* its turn; such a branch, when it is not skipped and its remote step did not
\* fail, ends the command with a panic, and the persisted graph is not
\* rewritten.
C6_MultiParentFatal ==
    /\ InSweepStep =>
          \A o \in Oracles :
              (contains_branch(dag, cur) /\ Len(dag.branches[cur].parents) > 1) =>
                  /\ Run(o).ev.parent = "untried"
                  /\ (~ParentFailedAtTurn /\ Run(o).ev.origin \in {"ok", "absent"})
                        => Run(o).panic
    /\ (pc = "panicked" /\ last.op = "update_branch") =>
          contains_branch(file, last.id) /\ dag = file

\* C6 witness: the sweep has just panicked on a branch with two parents.
C6_Witness ==
    /\ pc = "panicked" /\ last.op = "update_branch" /\ last.kind = "panic"
    /\ Len(file.branches[last.id].parents) = 2

\* C7: whenever a branch's turn ends in failure (conflict, lookup or checkout
\* error, failed abort; remote step or parent step), the branch is in failed
\* and its last_failed_rebase is the target that was being attempted.
C7_FailureRecorded ==
    [][ (InSweepStep /\ last'.kind = "failed") =>
        /\ cur \in failed'
        /\ \A o \in UsedOracles(dag, cur, failed) :
              (Run(o).ev.kind = "failed" /\ Run(o).dag = dag') =>
                  dag'.branches[cur].last_failed_rebase = Run(o).ev.target ]_vars

\* C8: when a sweep has run to its end and written the graph, every branch in
\* the graph that is neither in failed nor in skipped has last_failed_rebase
\* = None.
C8_SuccessClearsMark ==
    (pc = "done" /\ last.kind = "written") =>
        \A b \in DOMAIN dag.branches :
            b \notin failed \cup skipped => dag.branches[b].last_failed_rebase = None

\* C9: for a branch that is not skipped, an absent origin/<name> does not put
\* the branch in failed by itself and the parent step is what comes next (a
\* root is done, one parent is rebased onto, more than one is fatal); any
\* other failure of the remote step puts the branch in failed, with no parent
\* rebase and no prune test.
C9_RemoteSyncOutcomes ==
    (InSweepStep /\ contains_branch(dag, cur) /\ ~ParentFailedAtTurn) =>
        \A o \in Oracles :
            LET r == Run(o)
                n == Len(dag.branches[cur].parents)
            IN  /\ o.origin = "absent" =>
                      /\ r.ev.origin = "absent"
                      /\ n = 0 => r.ev.kind = "done" /\ cur \notin r.failed /\ r.dag = dag
                      /\ n = 1 => r.ev.parent = o.parent_rebase
                      /\ n = 1 => (cur \in r.failed <=> o.parent_rebase # "ok")
                      /\ n > 1 => r.panic /\ cur \notin r.failed
                /\ r.ev.origin \notin {"ok", "absent"} =>
                      /\ r.ev.kind = "failed"
                      /\ r.failed = failed \cup {cur}
                      /\ r.ev.parent = "untried"
                      /\ ~r.ev.prune_tested
                      /\ DOMAIN r.dag.branches = DOMAIN dag.branches

\* C9 witness: a branch whose remote step conflicted is in failed, stamped
\* with origin/<name>, while a branch processed before it in the same sweep,
\* a root with no mark, is not in failed.
C9_Witness ==
    /\ pc = "sweep" /\ last.kind = "failed"
    /\ dag.branches[last.id].last_failed_rebase
          = Some(OriginBranch(dag.branches[last.id].git_name))
    /\ \E b \in DOMAIN dag.branches :
          /\ b \in {sorted[k] : k \in 1..(idx - 2)}
          /\ b \notin failed \cup skipped

NoDuplicates(s) == Cardinality(Range(s)) = Len(s)

\* C10: for every graph and every pair of tracked branches, adding the edge
\* twice, by name or by id, gives the graph that adding it once gives; no id
\* occurs twice in a parents or a children list.
C10_AddEdgeIdempotent ==
    /\ \A c, p \in DOMAIN dag.branches :
          LET once == add_parent_child_relationship_by_id(dag, c, p)
              twice == add_parent_child_relationship_by_id(once.dag, c, p)
          IN  once.ok /\ twice.ok /\ twice.dag = once.dag
    /\ \A c, p \in {dag.branches[i].git_name : i \in DOMAIN dag.branches} :
          LET once == add_parent_child_relationship(dag, c, p)
              twice == add_parent_child_relationship(once.dag, c, p)
          IN  once.ok /\ twice.ok /\ twice.dag = once.dag
    /\ \A i \in DOMAIN dag.branches :
          /\ NoDuplicates(dag.branches[i].parents)
          /\ NoDuplicates(dag.branches[i].children)

\* C10 witness: an edge that was there has just been added again, and the
\* graph holds it once.
C10_Witness ==
    /\ last.kind = "again"
    /\ EdgeCount(dag) >= 1

\* C11: ids are never reused.  The counter is above every id in the graph and
\* in the persisted graph; the counter in memory never goes down across
\* create, insert, remove and persist, the persisted counter never goes down,
\* and a reload gives back the persisted graph with its counter, so the
\* counter stays above every id that was ever inserted and persisted;
\* create_branch returns the counter, an id no branch holds, and moves the
\* counter one up (1, 2, 3, ... from a fresh graph); after insert_branch with
\* id k the counter is at least k + 1.
C11_IdsNeverReused ==
    /\ [](/\ \A i \in DOMAIN dag.branches : i < dag.next_branch_id
          /\ \A i \in DOMAIN file.branches : i < file.next_branch_id
          /\ \A i \in DOMAIN dag.branches : dag.branches[i].uid = i
          /\ dag.next_branch_id >= file.next_branch_id)
    /\ [][ /\ last'.op # "read_dag_from_file" => dag'.next_branch_id >= dag.next_branch_id
           /\ file'.next_branch_id >= file.next_branch_id
           /\ last'.op = "read_dag_from_file" => dag' = file
           /\ last'.op = "write_dag_to_file" => file' = dag
           /\ last'.op = "create_branch" =>
                 /\ last'.id = dag.next_branch_id
                 /\ last'.id \notin DOMAIN dag.branches
                 /\ dag'.next_branch_id = last'.id + 1
           /\ last'.op = "insert_branch" => dag'.next_branch_id >= last'.id + 1 ]_vars
    /\ NewDag.next_branch_id = 1

\* C11 witness: create_branch has just returned 3 after the branches 1 and 2
\* were removed and the graph was persisted and reloaded.
C11_Witness ==
    /\ last.op = "create_branch" /\ last.id = 3
    /\ DOMAIN dag.branches = {3}
    /\ file.next_branch_id = 3 /\ DOMAIN file.branches = {}

\* The candidates that qualify as parent of the target under h: not the target,
\* an ancestor of it, at a non-zero distance.
ParentCandidates(h, target, candidates) ==
    {i \in DOMAIN candidates :
        /\ candidates[i] # target
        /\ is_ancestor(h, candidates[i], target)
        /\ count_commits_between(h, candidates[i], target) > 0}

\* C12: find_closest_parent returns None exactly when no candidate other than
\* the target is an ancestor of the target at a non-zero distance; otherwise it
\* returns such a candidate whose distance is minimal, the first in scan order
\* among those at that distance.
C12_ClosestParent ==
    call.fn = "find_closest_parent" =>
        LET Q == ParentCandidates(call.h, call.target, call.candidates)
            D(i) == count_commits_between(call.h, call.candidates[i], call.target)
        IN  /\ call.parent = None <=> Q = {}
            /\ Q # {} =>
                  \E i \in Q :
                      /\ call.parent = Some(call.candidates[i])
                      /\ \A j \in Q : D(i) <= D(j)
                      /\ \A j \in Q : D(j) = D(i) => i <= j

\* C12 witness: the chain a -> b -> c (one commit each step), target c,
\* candidates a then b: the result is b, not a.
C12_Witness ==
    /\ call.fn = "find_closest_parent"
    /\ call.target = "c" /\ call.candidates = <<"a", "b">>
    /\ call.h["a"] = {} /\ call.h["b"] = {1} /\ call.h["c"] = {1, 2}
    /\ call.parent = Some("b")

\* The candidates that qualify as child of the target under h: not the target,
\* a descendant of it, at a non-zero distance.
ChildCandidates(h, target, candidates) ==
    {c \in Range(candidates) :
        /\ c # target
        /\ is_ancestor(h, target, c)
        /\ count_commits_between(h, target, c) > 0}

\* C13: find_closest_children returns exactly the candidates other than the
\* target that descend from the target at a non-zero distance equal to the
\* smallest such distance (all ties kept, each once, in scan order), and the
\* empty list exactly when no candidate descends from the target at a
\* non-zero distance.
C13_ClosestChildren ==
    call.fn = "find_closest_children" =>
        LET Q == ChildCandidates(call.h, call.target, call.candidates)
            D(c) == count_commits_between(call.h, call.target, c)
        IN  /\ Range(call.children) = {c \in Q : \A x \in Q : D(c) <= D(x)}
            /\ call.children = <<>> <=> Q = {}
            /\ NoDuplicates(call.children)
            /\ \A i, j \in DOMAIN call.children :
                  i < j => \E k, l \in DOMAIN call.candidates :
                              /\ k < l
                              /\ call.candidates[k] = call.children[i]
                              /\ call.candidates[l] = call.children[j]

\* C13 witness: a has the children b and c at distance 1 and the grandchild d
\* at distance 2 under b; against b, c, d the result is b and c.
C13_Witness ==
    /\ call.fn = "find_closest_children"
    /\ call.target = "a" /\ call.candidates = <<"b", "c", "d">>
    /\ call.h["a"] = {} /\ call.h["b"] = {1} /\ call.h["c"] = {2} /\ call.h["d"] = {1, 2}
    /\ call.children = <<"b", "c">>

NameOf(d, i) == d.branches[i].git_name

\* C14: for every untracked name, every history and every iteration order,
\* tracking the name creates no edge from the new branch to itself, creates an
\* edge only with a branch at a non-zero commit distance (the parent an
\* ancestor, a child a descendant), leaves the edges among the other branches
\* alone, and, when no tracked branch is an ancestor or a descendant at a
\* non-zero distance, adds the branch as an isolated node.
C14_TrackRelationships ==
    AtPrompt =>
        \A name \in Names : IdsNamed(file, name) = {} =>
            LET n == file.next_branch_id
                old == DOMAIN file.branches
            IN  \A h \in Histories({NameOf(file, i) : i \in old} \cup {name}),
                   order \in Orders(old \cup {n}) :
                    \A r \in {track_new_branch(file, name, order, h)} :
                    LET qualifies ==
                            {x \in old :
                                \/ /\ is_ancestor(h, NameOf(file, x), name)
                                   /\ count_commits_between(h, NameOf(file, x), name) > 0
                                \/ /\ is_ancestor(h, name, NameOf(file, x))
                                   /\ count_commits_between(h, name, NameOf(file, x)) > 0}
                    IN  /\ DOMAIN r.branches = old \cup {n}
                        /\ n \notin ParentsOf(r, n) \cup ChildrenOf(r, n)
                        /\ \A x \in ParentsOf(r, n) :
                              /\ x \in old
                              /\ is_ancestor(h, NameOf(file, x), name)
                              /\ count_commits_between(h, NameOf(file, x), name) > 0
                        /\ \A x \in ChildrenOf(r, n) :
                              /\ x \in old
                              /\ is_ancestor(h, name, NameOf(file, x))
                              /\ count_commits_between(h, name, NameOf(file, x)) > 0
                        /\ \A x \in old :
                              /\ ParentsOf(r, x) \ {n} = ParentsOf(file, x)
                              /\ ChildrenOf(r, x) \ {n} = ChildrenOf(file, x)
                        /\ qualifies = {} => r = create_branch(file, name)

\* C14 witness: the third branch has just been tracked and came out isolated,
\* beside two branches that are related.
C14_Witness ==
    /\ last.op = "track" /\ last.kind = "tracked" /\ last.id = 3
    /\ file.branches[3].parents = <<>> /\ file.branches[3].children = <<>>
    /\ file.branches[2].parents = <<1>>

UniqueNames(d) ==
    \A i, j \in DOMAIN d.branches : NameOf(d, i) = NameOf(d, j) => i = j

\* C15: no two branches of the graph, in memory or persisted, carry the same
\* git_name; a track of a name that is tracked already returns normally and
\* leaves the persisted graph, its id counter included, as it was.
C15_NameUniqueness ==
    /\ [](UniqueNames(file) /\ UniqueNames(dag))
    /\ [][ (last'.op = "track" /\ last'.kind = "already_tracked") =>
             /\ file' = file
             /\ dag' = file
             /\ file'.next_branch_id = file.next_branch_id
             /\ pc' = "idle" ]_vars

\* C15 witness: a name was tracked a second time, in a graph of two branches.
C15_Witness ==
    /\ last.op = "track" /\ last.kind = "already_tracked"
    /\ Cardinality(DOMAIN file.branches) = 2

\* The ids of the sweep order that are no longer in the graph.
PrunedIds == {sorted[k] : k \in DOMAIN sorted} \ DOMAIN dag.branches

\* C16: at every point of the sweep, and when its summary is computed, failed
\* and skipped are disjoint sets of ids of the sweep order, every pruned id is
\* in skipped and not in failed, and total - failed - skipped, computed left
\* to right, never goes below zero.
C16_SweepBookkeeping ==
    (pc = "sweep" \/ (pc = "done" /\ last.kind = "written")) =>
        /\ failed \cap skipped = {}
        /\ failed \cup skipped \subseteq Range(sorted)
        /\ PrunedIds \subseteq skipped
        /\ PrunedIds \cap failed = {}
        /\ Len(sorted) - Cardinality(failed) >= 0
        /\ Len(sorted) - Cardinality(failed) - Cardinality(skipped) >= 0

\* C16 witness: a sweep over three branches ended with one failed, one pruned
\* and one succeeded.
C16_Witness ==
    /\ pc = "done" /\ last.kind = "written"
    /\ Len(sorted) = 3
    /\ Cardinality(failed) = 1
    /\ Cardinality(PrunedIds) = 1
    /\ Len(sorted) - Cardinality(failed) - Cardinality(skipped) = 1

\* The step is a call of a PR-creating function on a branch of the graph.
CreatesPrFor(fn, i) ==
    /\ call'.fn = fn /\ call'.id = i
    /\ contains_branch(dag, i)

\* C17 as stated: for a branch whose pr_number is set, the create-PR operation
\* (create_pr_for_branch, create_pr_if_needed) runs no gh, leaves the graph
\* unchanged and returns the existing number.
C17_ReturnsExistingNumber ==
    [][ \A i \in Ids : \A fn \in {"create_pr_for_branch", "create_pr_if_needed"} :
          (CreatesPrFor(fn, i) /\ dag.branches[i].pr_number # None) =>
              /\ ~call'.gh_called
              /\ dag' = dag
              /\ call'.res \in {"ok", "some"}
              /\ call'.n = dag.branches[i].pr_number[1] ]_vars

\* C17 amended: for a branch whose pr_number is set, neither function runs gh
\* or changes the graph; create_pr_if_needed returns the existing number,
\* create_pr_for_branch returns Ok(None).
C17_ExistingPrNoOp ==
    [][ \A i \in Ids : \A fn \in {"create_pr_for_branch", "create_pr_if_needed"} :
          (CreatesPrFor(fn, i) /\ dag.branches[i].pr_number # None) =>
              /\ ~call'.gh_called
              /\ dag' = dag
              /\ fn = "create_pr_if_needed" =>
                    call'.res = "ok" /\ call'.n = dag.branches[i].pr_number[1]
              /\ fn = "create_pr_for_branch" => call'.res = "none" /\ call'.n = 0 ]_vars

\* C17 witness: create_pr_for_branch has returned Ok(None) for a branch with
\* one parent and the PR number 2.
C17_Witness ==
    /\ call.fn = "create_pr_for_branch" /\ call.res = "none"
    /\ contains_branch(dag, call.id)
    /\ dag.branches[call.id].pr_number = Some(2)
    /\ Len(dag.branches[call.id].parents) = 1

C19_RetargetRequiresPr ==
    /\ [][ call'.fn = "update_pr_target_for_branch" =>
             /\ dag' = dag
             /\ ~contains_branch(dag, call'.id) =>
                   call'.res = "not_found" /\ ~call'.gh_called
             /\ (contains_branch(dag, call'.id) /\ dag.branches[call'.id].pr_number = None)
                   => call'.res = "no_pr" /\ ~call'.gh_called
             /\ (contains_branch(dag, call'.id) /\ dag.branches[call'.id].pr_number # None)
                   => call'.res \in {"ok", "gh_failed"} /\ call'.gh_called ]_vars
    /\ [](\A i \in Ids :
             update_pr_target_for_branch(i, dag, TRUE) \in {"not_found", "no_pr"}
                 => update_pr_target_for_branch(i, dag, FALSE)
                       = update_pr_target_for_branch(i, dag, TRUE))

\* C19 witness: the retarget of a branch without pr_number has just returned
\* its error, in a graph where another branch has a PR.
C19_Witness ==
    /\ call.fn = "update_pr_target_for_branch" /\ call.res = "no_pr"
    /\ contains_branch(dag, call.id)
    /\ \E j \in DOMAIN dag.branches : dag.branches[j].pr_number # None

\* The step prunes cur under the outcomes o.
PrunesUnder(o) == Run(o).ev.kind = "pruned" /\ Run(o).dag = dag' /\ LastOf(Run(o).ev) = last'

\* C20: when the sweep prunes a branch, a retarget of a reparented child's PR
\* that fails (gh fails, or the child has no pr_number) changes nothing
\* else: the graph is the one a successful retarget leaves (branch removed,
\* children rewired), the sweep goes on with the next branch, the pruned
\* branch is in skipped and not in failed, failed is unchanged, and no branch
\* keeps the pruned branch as parent, so no child is skipped because of it.
C20_BestEffortRetarget ==
    [][ (InSweepStep /\ last'.kind = "pruned") =>
          /\ pc' = "sweep" /\ idx' = idx + 1 /\ sorted' = sorted
          /\ cur \notin DOMAIN dag'.branches
          /\ failed' = failed /\ cur \notin failed'
          /\ skipped' = skipped \cup {cur}
          /\ \A c \in DOMAIN dag'.branches : cur \notin ParentsOf(dag', c)
          /\ \A c \in ChildrenOf(dag, cur) \cap DOMAIN dag'.branches :
                ~should_skip(dag'.branches[c], {cur})
          /\ \A o \in Oracles : PrunesUnder(o) =>
                /\ Run([o EXCEPT !.gh_ok = TRUE]).dag = dag'
                /\ Run([o EXCEPT !.gh_ok = FALSE]).dag = dag'
                /\ Run([o EXCEPT !.gh_ok = FALSE]).ev.kind = "pruned"
                /\ Run([o EXCEPT !.gh_ok = FALSE]).failed = failed ]_vars

\* C20 witness: a branch with a child was pruned, the retarget of the child's
\* PR failed in gh, and the child is in the graph with its PR.
C20_Witness ==
    /\ pc = "sweep" /\ last.kind = "pruned"
    /\ last.retarget = <<"gh_failed">>
    /\ \E c \in DOMAIN dag.branches :
          /\ c \in ChildrenOf(file, last.id)
          /\ dag.branches[c].pr_number # None

\* C21: a second update sweep over the graph a completed sweep without
\* failure has written, in the same repository (same origin branches, every
\* rebase succeeding and making its target an ancestor), completes and leaves
\* the graph as it was.
C21_UpdateIdempotent ==
    (pc = "idle" /\ file.branches # NewDag.branches) =>
        \A om \in OriginMaps : \A order1 \in Orders(DOMAIN file.branches) :
            \A s1 \in {RunSweep(file, order1, CleanOracles(om))} :
                (s1.done /\ s1.failed = {}) =>
                    \A order2 \in Orders(DOMAIN s1.dag.branches) :
                        \A s2 \in {RunSweep(s1.dag, order2, CleanOracles(om))} :
                            s2.done /\ s2.dag = s1.dag

\* C22: a step of the sweep that records a branch as failed leaves no rebase
\* in progress (the abort of a conflicting rebase has succeeded before the
\* branch is recorded), and whenever the sweep is about to process a branch
\* no rebase is in progress in the working tree.
C22_AbortBeforeRecording ==
    /\ [](InSweepStep => ~tree.rebasing)
    /\ [][(pc = "sweep" /\ failed' # failed) => ~tree'.rebasing]_vars

\* C23: when the update sweep has finished and written the graph, the branch
\* checked out in the working tree is the one that was checked out when the
\* command started.
C23_WorkingTreeRestored ==
    (pc = "done" /\ last.op = "update" /\ last.kind = "written") => tree.head = tree.start

\* C24: the update command started on an empty graph succeeds at once (a
\* failing fetch cannot make it fail); started on a graph with branches it
\* exits when the fetch fails and, the fetch done, exits exactly when the
\* graph has a cycle; in all three cases nothing is checked out or rebased,
\* no sweep is run and the persisted graph is not rewritten.
C24_FatalBeforeMutation ==
    /\ [](pc = "exited" => (last.kind \in {"fetch_failed", "cycle"} /\ sorted = <<>>
                             /\ failed = {} /\ skipped = {} /\ dag = file))
    /\ [][(AtPrompt /\ last'.op = "update") =>
            /\ file' = file
            /\ tree'.head = tree.head /\ tree'.rebasing = tree.rebasing
            /\ (file.branches = NewDag.branches) => (pc' = "done" /\ last'.kind = "empty")
            /\ (file.branches # NewDag.branches) =>
                  /\ last'.kind \in {"fetch_failed", "cycle", "sorted"}
                  /\ (last'.kind = "sorted") = (pc' = "sweep")
                  /\ (last'.kind # "sorted") = (pc' = "exited")
                  /\ last'.kind = "cycle" => HasCycle(file)
                  /\ last'.kind = "sorted" => ~HasCycle(file)]_vars
C24_Witness ==
    /\ pc = "exited" /\ last.kind = "cycle"
    /\ \E i \in DOMAIN file.branches : file.branches[i].parents # <<>>

\* The ids reachable from i in d by zero or more steps along children edges.
RECURSIVE ReachUpTo(_, _, _)
ReachUpTo(d, S, n) ==
    IF n = 0 THEN S
    ELSE LET T == S \cup UNION {ChildrenOf(d, j) : j \in S \cap DOMAIN d.branches}
         IN  IF T = S THEN S ELSE ReachUpTo(d, T, n - 1)
Reachable(d, i) == ReachUpTo(d, {i}, Cardinality(DOMAIN d.branches) + 1)

\* C25: on every graph, cyclic or not, and for every id, tracked or not,
\* get_recursive_children ends and returns exactly the ids reachable from the
\* id along children edges: the id itself is among them, every other one is
\* a child of one of them, and in a graph without cycle no ancestor of the id
\* is among them.
C25_RecursiveChildren ==
    call.fn = "get_recursive_children" =>
        /\ call.done
        /\ call.visited = Reachable(dag, call.id)
        /\ call.id \in call.visited
        /\ \A a \in call.visited \ {call.id} :
              /\ a \in DOMAIN dag.branches
              /\ \E j \in call.visited : j \in DOMAIN dag.branches /\ a \in ChildrenOf(dag, j)
        /\ (call.id \in DOMAIN dag.branches /\ ~HasCycle(dag)) =>
              Ancestors(dag, call.id) \cap call.visited = {}
C25_Witness ==
    /\ call.fn = "get_recursive_children"
    /\ HasCycle(dag)
    /\ call.id \in DOMAIN dag.branches
    /\ Cardinality(call.visited) = 2
    /\ Cardinality(DOMAIN dag.branches) = 3

\* C26: whenever a command has written the graph it holds in memory (after
\* track, update or submit: graphs with edges, pruned branches, failure marks
\* and pull-request numbers), the graph read back from the file is equal to
\* it: same branches, same parents and children lists in the same order,
\* same last_failed_rebase, same counter; a branch created after the reload
\* gets the id it would have got without it.
C26_RoundTrip ==
    last.kind \in {"tracked", "written", "submitted"} =>
        /\ DOMAIN file.branches = DOMAIN dag.branches
        /\ \A i \in DOMAIN dag.branches :
              /\ file.branches[i].uid = dag.branches[i].uid
              /\ file.branches[i].git_name = dag.branches[i].git_name
              /\ file.branches[i].parents = dag.branches[i].parents
              /\ file.branches[i].children = dag.branches[i].children
              /\ file.branches[i].last_failed_rebase = dag.branches[i].last_failed_rebase
              /\ file.branches[i].pr_number = dag.branches[i].pr_number
        /\ file.next_branch_id = dag.next_branch_id
        /\ DOMAIN create_branch(file, "new").branches \ DOMAIN file.branches
              = {dag.next_branch_id}
C26_Witness ==
    /\ last.kind = "written"
    /\ dag.next_branch_id > Cardinality(DOMAIN dag.branches) + 1
    /\ \E i \in DOMAIN dag.branches :
          /\ dag.branches[i].last_failed_rebase # None
          /\ dag.branches[i].pr_number # None
          /\ dag.branches[i].parents # <<>>
    /\ file = dag

\* C27: reading a state file that does not exist, is empty or holds only
\* whitespace is not an error and gives the empty graph with counter 1, and
\* the first branch tracked after it has id 1.
C27_EmptyFileLoads ==
    (/\ call.fn = "read_dag_from_file"
     /\ (call.content.exists =>
            \A k \in DOMAIN call.content.text : call.content.text[k].t = "ws")) =>
        /\ call.res = "ok"
        /\ last.op = "read_dag_from_file" =>
              (dag.branches = <<>> /\ dag.next_branch_id = 1 /\ file = dag)
        /\ (last.kind = "tracked" /\ Cardinality(DOMAIN file.branches) = 1) =>
              (DOMAIN file.branches = {1} /\ last.id = 1 /\ file.branches[1].uid = 1)
C27_Witness ==
    /\ call.fn = "read_dag_from_file"
    /\ call.content.exists
    /\ Len(call.content.text) = 2
    /\ \A k \in DOMAIN call.content.text : call.content.text[k].t = "ws"
    /\ last.kind = "tracked"
    /\ DOMAIN file.branches = {1}

\* C28: at its turn a branch is skipped exactly when one of its direct
\* parents is in failed; a skipped or pruned branch is not in failed, so a
\* branch whose parents are in skipped but not in failed is attempted: its
\* remote step is run and, when that does not fail and it has one parent, it
\* is rebased onto that parent (in a chain A -> B -> C where A fails, B is
\* skipped and C is rebased onto B).
C28_DirectOnly ==
    /\ [](failed \cap skipped = {})
    /\ [][ (InSweepStep /\ contains_branch(dag, cur)) =>
            /\ (last'.kind = "skipped") = ParentFailedAtTurn
            /\ (ParentsOf(dag, cur) \cap skipped # {} /\ ~ParentFailedAtTurn) =>
                  \A o \in Oracles :
                      /\ Run(o).ev.kind # "skipped"
                      /\ Run(o).ev.origin # "untried"
                      /\ (~OriginStepFailed(Run(o).ev.origin)
                             /\ Len(dag.branches[cur].parents) = 1
                             /\ contains_branch(dag, dag.branches[cur].parents[1])) =>
                            /\ Run(o).ev.parent = o.parent_rebase
                            /\ Run(o).ev.target =
                                  Some(NameOf(dag, dag.branches[cur].parents[1])) ]_vars
\* C28 witness: C has just been rebased onto B, which was skipped because
\* its parent A failed.
C28_Witness ==
    /\ pc = "sweep"
    /\ last.op = "update_branch" /\ last.kind = "done"
    /\ contains_branch(dag, last.id)
    /\ \E b \in ParentsOf(dag, last.id) :
          /\ b \in skipped /\ contains_branch(dag, b)
          /\ dag.branches[last.id].parents = <<b>>
          /\ \E a \in ParentsOf(dag, b) : a \in failed

\* The outcomes under which neither the origin step nor the parent rebase of
\* a call fails, and the ancestry test after the parent rebase succeeds.
NothingFails ==
    {o \in Oracles : /\ o.origin # "error" /\ o.origin_rebase = "ok"
                     /\ o.parent_rebase = "ok" /\ o.is_ancestor}

C30_ChildrenFollowParent ==
    pc = "idle" =>
        \A om \in OriginMaps : \A order \in Orders(DOMAIN file.branches) :
            \A s \in {RunSweep(file, order, CleanOracles(om))} :
                \A k, j \in DOMAIN s.evs :
                    (/\ k < j
                     /\ s.evs[k].kind = "pruned"
                     /\ s.evs[j].id \in Range(s.evs[k].children)
                     /\ s.evs[j].kind # "missing") =>
                        /\ s.evs[j].nparents = 1
                        /\ s.evs[j].kind # "skipped"
                        /\ s.evs[j].P = s.evs[k].P
                        /\ s.evs[j].target = Some(NameOf(file, s.evs[k].P))

\* The targets that update_branch hands to rebase_branch for cur.
RebaseTargets ==
    {OriginBranch(NameOf(dag, cur))}
        \cup {NameOf(dag, p) : p \in ParentsOf(dag, cur) \cap DOMAIN dag.branches}

C33_FailedAddChangesNothing ==
    /\ [](/\ \A c, p \in 1..(MaxId + 1) :
                LET r == add_parent_child_relationship_by_id(dag, c, p) IN
                /\ r.ok = (contains_branch(dag, c) /\ contains_branch(dag, p))
                /\ ~r.ok => r.dag = dag
          /\ \A c, p \in Names :
                LET r == add_parent_child_relationship(dag, c, p) IN
                /\ r.ok = (IdsNamed(dag, c) # {} /\ IdsNamed(dag, p) # {})
                /\ ~r.ok => r.dag = dag)
    /\ [][(last'.op \in {"add_by_id", "add_by_name"} /\ last'.kind = "err") => dag' = dag]_vars
\* C33 witness: an add-edge call has just failed on a graph with an edge.
C33_Witness ==
    /\ last.op = "add_by_name" /\ last.kind = "err"
    /\ EdgeCount(dag) >= 1
    /\ Cardinality(DOMAIN dag.branches) = 2

\* C34: no step of the sweep before its end writes the state file: when the
\* sweep aborts on a branch with several parents, after earlier branches were
\* rebased, stamped or pruned in memory, the persisted graph is the one the
\* command loaded; the file is written once, after the last branch.
C34_AbortPersistsNothing ==
    [][ pc = "sweep" =>
          /\ idx <= Len(sorted) => file' = file
          /\ pc' = "panicked" =>
                /\ file' = file
                /\ last'.kind = "panic"
                /\ InSweepStep /\ contains_branch(dag, cur)
                /\ MultipleParents(dag.branches[cur].parents)
          /\ file' # file => (idx > Len(sorted) /\ pc' = "done" /\ last'.kind = "written") ]_vars
\* C34 witness: the sweep has aborted on a branch with two parents after it
\* rebased a branch whose failure mark, cleared in memory, is still in the
\* file.
C34_Witness ==
    /\ pc = "panicked" /\ last.op = "update_branch"
    /\ contains_branch(file, last.id)
    /\ Len(file.branches[last.id].parents) = 2
    /\ \E k \in 1..(idx - 1) :
          /\ sorted[k] \notin failed \cup skipped
          /\ contains_branch(file, sorted[k])
          /\ file.branches[sorted[k]].last_failed_rebase # None
\* C35: the submit sweep only sets PR numbers.  Whatever the iteration order of
\* the map and whatever gh answers for each branch, a submit that is not
\* aborted visits every branch exactly once, a parent before its children, and
\* a branch with one tracked parent and no pull request gets the number gh
\* printed for it even when gh failed on other branches; a command that ends
\* without "submitted" leaves the file alone, and a submitted one keeps the
\* branches, the counter, the edges, the names and last_failed_rebase, and
\* changes a pr_number only from None to Some.
SubmitEligible(d, i) ==
    /\ d.branches[i].pr_number = None
    /\ Len(d.branches[i].parents) = 1
    /\ contains_branch(d, d.branches[i].parents[1])
C35_SubmitOnlySetsPr ==
    /\ [](pc # "sweep" =>
            \A order \in Orders(DOMAIN file.branches) :
                LET r == topological_sort(file, order) IN
                r.ok => \A ghs \in SubmitOracles(file) :
                    LET s == SubmitLoop(file, r.ids, ghs) IN
                    ~s.panic =>
                        /\ Len(s.evs) = Len(r.ids)
                        /\ \A k \in DOMAIN r.ids : s.evs[k].id = r.ids[k]
                        /\ \A i \in DOMAIN file.branches :
                              Cardinality({k \in DOMAIN s.evs : s.evs[k].id = i}) = 1
                        /\ \A k, m \in DOMAIN r.ids :
                              r.ids[k] \in Range(file.branches[r.ids[m]].parents) => k < m
                        /\ \A i \in DOMAIN file.branches :
                              (SubmitEligible(file, i) /\ ghs[i].kind = "url")
                                  => s.dag.branches[i].pr_number = Some(ghs[i].n))
    /\ [][ (pc # "sweep" /\ last'.op = "submit") =>
             /\ last'.kind # "submitted" => file' = file
             /\ last'.kind = "submitted" =>
                   /\ DOMAIN file'.branches = DOMAIN file.branches
                   /\ file'.next_branch_id = file.next_branch_id
                   /\ \A i \in DOMAIN file.branches :
                         /\ file'.branches[i].uid = file.branches[i].uid
                         /\ file'.branches[i].git_name = file.branches[i].git_name
                         /\ file'.branches[i].parents = file.branches[i].parents
                         /\ file'.branches[i].children = file.branches[i].children
                         /\ file'.branches[i].last_failed_rebase
                                = file.branches[i].last_failed_rebase
                         /\ \/ file'.branches[i].pr_number = file.branches[i].pr_number
                            \/ /\ file.branches[i].pr_number = None
                               /\ file'.branches[i].pr_number # None
                               /\ SubmitEligible(file, i) ]_vars
\* A submit has ended in which gh failed for a branch with one tracked parent
\* while a child of that branch holds a pull request.
C35_Witness ==
    /\ last.op = "submit" /\ last.kind = "submitted"
    /\ \E i, j \in DOMAIN file.branches :
          /\ SubmitEligible(file, i)
          /\ file.branches[j].parents = <<i>>
          /\ file.branches[j].pr_number # None
          /\ file.branches[i].last_failed_rebase # None
\* -------------------------------------------- tracking over one history
\* Track commands alone, in any order of the names, over a commit history
\* that does not change between the commands: the history is drawn once and
\* every run of the git commands answers from it.
InitTrack ==
    /\ file = NewDag
    /\ dag = NewDag
    /\ pc = "idle"
    /\ sorted = <<>>
    /\ idx = 1
    /\ failed = {}
    /\ skipped = {}
    /\ last = LastOf(NoEvent)
    /\ tree = NewTree
    /\ \E h \in Histories(Names) : call = [NoCall EXCEPT !.h = h]

\* handle_track_command (main.rs:125-203) over the history call.h
TrackOver(branch_to_track) ==
    /\ AtPrompt
    /\ NoSweep
    /\ pc' = "idle"
    /\ IF IdsNamed(file, branch_to_track) # {}
       THEN /\ file' = file
            /\ dag' = file
            /\ last' = LastOf([NoEvent EXCEPT !.op = "track", !.kind = "already_tracked"])
       ELSE /\ file.next_branch_id <= MaxId
            /\ \E order \in Orders(DOMAIN file.branches \cup {file.next_branch_id}) :
                  /\ dag' = track_new_branch(file, branch_to_track, order, call.h)
                  /\ file' = Persisted(dag')
            /\ last' = LastOf([NoEvent EXCEPT !.op = "track", !.kind = "tracked",
                                       !.id = file.next_branch_id])
    /\ UNCHANGED <<call, tree>>

NextTrack == \E n \in Names : TrackOver(n)

SpecTrack == InitTrack /\ [][NextTrack]_vars

\* The graphs that tracking the names of the sequence names, in that order,
\* can leave in the file, one for each iteration order of the map.
RECURSIVE TrackSeq(_, _, _)
TrackSeq(d, names, h) ==
    IF names = <<>> THEN {d}
    ELSE UNION {TrackSeq(Persisted(track_new_branch(d, Head(names), order, h)), Tail(names), h) :
                   order \in Orders(DOMAIN d.branches \cup {d.next_branch_id})}

\* The edges of a graph as pairs <<parent name, child name>>.
NameEdges(d) ==
    {<<NameOf(d, e[2]), NameOf(d, e[1])>> :
        e \in {x \in (DOMAIN d.branches) \X (DOMAIN d.branches) :
                  x[2] \in Range(d.branches[x[1]].parents)}}
TrackedNames(d) == {NameOf(d, i) : i \in DOMAIN d.branches}

\* C36: over a fixed commit history, after any sequence of track commands in
\* any order every tracked branch has at most one parent.
C36_TrackSingleParent ==
    \A i \in DOMAIN file.branches : Len(file.branches[i].parents) <= 1

\* C37: over a fixed commit history, after any sequence of track commands
\* every edge goes from a branch to a strict descendant of it in the history,
\* the graph has no cycle and topological_sort succeeds for every iteration
\* order of the map.
C37_TrackAcyclic ==
    /\ \A e \in NameEdges(file) :
          /\ is_ancestor(call.h, e[1], e[2])
          /\ count_commits_between(call.h, e[1], e[2]) > 0
    /\ ~HasCycle(file)
    /\ \A order \in Orders(DOMAIN file.branches) : topological_sort(file, order).ok
\* Three branches are tracked, one of them with two parents.
C37_Witness ==
    /\ Cardinality(DOMAIN file.branches) = 3
    /\ \E i \in DOMAIN file.branches : Len(file.branches[i].parents) = 2

\* C39: over a fixed commit history, tracking the branches that are tracked
\* now in any other order gives the same edges between the same names.
C39_TrackOrderIndependent ==
    \A names \in Orders(TrackedNames(file)) :
        \A d \in TrackSeq(NewDag, names, call.h) : NameEdges(d) = NameEdges(file)
\* C38: the update sweep preserves acyclicity.  When a sweep that started from
\* an acyclic symmetric graph has processed its last branch, the graph it
\* writes has no cycle and topological_sort succeeds on it for every
\* iteration order of the map.
C38_SweepKeepsAcyclic ==
    [][ (pc = "sweep" /\ idx > Len(sorted) /\ ~HasCycle(file) /\ Symmetric(file)) =>
            /\ ~HasCycle(file')
            /\ \A order \in Orders(DOMAIN file'.branches) :
                  topological_sort(file', order).ok ]_vars
====
